---------------------------- MODULE Spec2Model ----------------------------
(***************************************************************************)
(* A model of espera's tick-rate control: Rate (lag-compensated ticks),    *)
(* RateStats (windowed statistics) and Looper (the Active/Asleep loop      *)
(* state machine over a root rate and a table of named rates).             *)
(*                                                                         *)
(* Durations and instants are nanosecond counts that exceed 32 bits, so    *)
(* they are kept as (s, ns) pairs, value = s * 10^9 + ns with              *)
(* 0 <= ns < 10^9, the layout of time::Duration up to the sign convention. *)
(***************************************************************************)
EXTENDS Integers, Sequences, FiniteSets, TLC

VARIABLES
    clock,       \* the last reading the monotonic clock gave (Instant::now)
    rate,        \* a Rate owned directly by the caller
    sched,       \* "regular" while every call since new/reset was do_tick(last_tick + duration),
                 \* "do_tick" while every call was a do_tick that clamped and saturated nothing
    looper,      \* a Looper: status, root_rate, root_stats, rates, stats
    stats,       \* a RateStats owned directly by the caller
    pushes,      \* the number of add and add_ns calls made on stats
    call,        \* the last public call: its name, arguments, result and blocking waits
    trail,       \* the last loop events, oldest first: "M" a measure that returned Some,
                 \* "S" a sleep made while Active, "R" a reset or several in a row
    poll,        \* where rate is polled next to a twin: the instant the polling started
                 \* from, the last instant passed, the longest gap between instants,
                 \* whether the instants rose strictly, whether no lag was clamped, and
                 \* the twin Rate, which got the same instants through do_tick_fast
    counted      \* the number of measure() calls that returned Some since the Looper was
                 \* constructed or last reset, and whether the host has written the root
                 \* rate through mut_root_rate() since then

vars == <<clock, rate, sched, looper, stats, pushes, call, trail, poll, counted>>

-----------------------------------------------------------------------------
(* Bounds of the model *)

\* instants range over 0 .. MaxSec seconds, in half-second steps
MaxSec == 4

\* a Rate is not ticked beyond this count
MaxTicks == 3

\* the clock of a Looper that runs its root cadence alone ranges over
\* 0 .. MaxLoopHalves half seconds
MaxLoopHalves == 1

\* a named rate of the Looper is not ticked beyond this count
MaxNamedTicks == 1

\* no more than this many samples are pushed into the ring of a named rate
MaxSamples == 1

\* beside named rates, no more than this many samples are pushed into the root ring
MaxMeasures == 2

\* the root cadence alone is followed up to this many samples
MaxRootSamples == 16

\* a polled Rate is passed instants up to this many steps of 2.5 s, beside the
\* instants of the first seconds
MaxPollSteps == 6

-----------------------------------------------------------------------------
(* Duration and Instant arithmetic (the time crate) *)

\* nanoseconds per second
G == 1000000000

I32_MAX == 2147483647

I32_MIN == (-I32_MAX) - 1

Dur(s, ns) == [s |-> s, ns |-> ns]

ZERO == Dur(0, 0)

Half == Dur(0, G \div 2)

\* carries ns back into 0 .. G-1; ns is within (-2G, 2G)
Norm(s, ns) ==
    IF ns >= G THEN Dur(s + 1, ns - G)
    ELSE IF ns < 0 THEN Dur(s - 1, ns + G)
    ELSE Dur(s, ns)

DurAdd(a, b) == Norm(a.s + b.s, a.ns + b.ns)

DurSub(a, b) == Norm(a.s - b.s, a.ns - b.ns)

DurGE(a, b) == a.s > b.s \/ (a.s = b.s /\ a.ns >= b.ns)

DurGT(a, b) == a.s > b.s \/ (a.s = b.s /\ a.ns > b.ns)

is_positive(d) == DurGT(d, ZERO)

\* Duration::new(0, nanos) for an i32 count of nanoseconds
DurationNew0(nanos) == Dur(nanos \div G, nanos % G)

\* whole_nanoseconds() of a duration that fits an i32
WholeNs(d) ==
    IF d.s >= 0 THEN d.s * G + d.ns ELSE (d.s + 1) * G + (d.ns - G)

\* whole_nanoseconds().clamp(i32::MIN, i32::MAX) as i32
ClampI32(d) ==
    IF DurGE(d, DurationNew0(I32_MAX)) THEN I32_MAX
    ELSE IF DurGE(DurationNew0(I32_MIN), d) THEN I32_MIN
    ELSE WholeNs(d)

\* i32::wrapping_add, what += does in a build without overflow checks
wrapping_add(a, b) ==
    IF b > 0 /\ a > I32_MAX - b THEN (a - I32_MAX - 1) + (b - I32_MAX - 1)
    ELSE IF b < 0 /\ a < I32_MIN - b THEN (a + I32_MAX + 1) + (b + I32_MAX + 1)
    ELSE a + b

\* i32::saturating_add
saturating_add(a, b) ==
    IF b > 0 /\ a > I32_MAX - b THEN I32_MAX
    ELSE IF b < 0 /\ a < I32_MIN - b THEN I32_MIN
    ELSE a + b

\* the count of measures and the mark of a write of the root rate
Counted(measures, written) == [measures |-> measures, written |-> written]

None == <<>>

Some(x) == <<x>>

\* the instants callers pass and the clock reads
InstantSet == {Dur(s, ns) : s \in 0 .. MaxSec, ns \in {0, G \div 2}}

\* the target durations per tick
DurationSet == {ZERO, Half, Dur(1, 0)}

\* Instant::now(): the clock is monotonic; a reading is the previous one or later
Nows(t) == {u \in InstantSet : DurGE(u, t) /\ DurGE(DurAdd(t, Half), u)}

-----------------------------------------------------------------------------
(* Rate *)

RateNewAt(duration_per_tick, t1, t2) ==
    [duration |-> duration_per_tick, first_tick |-> t1, last_tick |-> t2,
     ticks |-> 0, delta_rem |-> 0]

RateResetAt(r, t1, t2) ==
    [r EXCEPT !.ticks = 0, !.first_tick = t1, !.last_tick = t2, !.delta_rem = 0]

\* increment_ticks counting two
increment_ticks_twice(r) == [r EXCEPT !.ticks = @ + 2]

increment_ticks(r) == [r EXCEPT !.ticks = @ + 1]

set_last_tick(r, instant) == [r EXCEPT !.last_tick = instant]

set_duration(r, duration_per_tick) == [r EXCEPT !.duration = duration_per_tick]

last_elapsed(r, instant) == DurSub(instant, r.last_tick)

\* do_tick with the due check written > instead of >=
Rate_do_tick_strict(r, instant) ==
    LET delta == last_elapsed(r, instant) IN
    IF DurGT(DurAdd(delta, DurationNew0(r.delta_rem)), r.duration)
    THEN LET lag_clamped == ClampI32(DurSub(delta, r.duration))
             r1 == [r EXCEPT !.delta_rem = saturating_add(r.delta_rem, lag_clamped)]
         IN [rate |-> set_last_tick(increment_ticks(r1), instant), ret |-> Some(delta)]
    ELSE [rate |-> r, ret |-> None]

\* do_tick moving last_tick before the due check
Rate_do_tick_anchors_early(r, instant) ==
    LET delta == last_elapsed(r, instant) IN
    IF DurGE(DurAdd(delta, DurationNew0(r.delta_rem)), r.duration)
    THEN LET lag_clamped == ClampI32(DurSub(delta, r.duration))
             r1 == [r EXCEPT !.delta_rem = saturating_add(r.delta_rem, lag_clamped)]
         IN [rate |-> set_last_tick(increment_ticks(r1), instant), ret |-> Some(delta)]
    ELSE [rate |-> set_last_tick(r, instant), ret |-> None]

\* do_tick accumulating the whole delta as lag
Rate_do_tick_lag_is_delta(r, instant) ==
    LET delta == last_elapsed(r, instant) IN
    IF DurGE(DurAdd(delta, DurationNew0(r.delta_rem)), r.duration)
    THEN LET lag_clamped == ClampI32(delta)
             r1 == [r EXCEPT !.delta_rem = saturating_add(r.delta_rem, lag_clamped)]
         IN [rate |-> set_last_tick(increment_ticks(r1), instant), ret |-> Some(delta)]
    ELSE [rate |-> r, ret |-> None]

\* do_tick firing on every call
Rate_do_tick_unconditional(r, instant) ==
    LET delta == last_elapsed(r, instant)
        lag_clamped == ClampI32(DurSub(delta, r.duration))
        r1 == [r EXCEPT !.delta_rem = saturating_add(r.delta_rem, lag_clamped)]
    IN [rate |-> set_last_tick(increment_ticks(r1), instant), ret |-> Some(delta)]

\* do_tick firing one duration early
Rate_do_tick_early(r, instant) ==
    LET delta == last_elapsed(r, instant) IN
    IF DurGE(DurAdd(delta, DurationNew0(r.delta_rem)), ZERO)
    THEN LET lag_clamped == ClampI32(DurSub(delta, r.duration))
             r1 == [r EXCEPT !.delta_rem = saturating_add(r.delta_rem, lag_clamped)]
         IN [rate |-> set_last_tick(increment_ticks(r1), instant), ret |-> Some(delta)]
    ELSE [rate |-> r, ret |-> None]

\* do_tick leaving delta_rem out of the due check
Rate_do_tick_uncompensated(r, instant) ==
    LET delta == last_elapsed(r, instant) IN
    IF DurGE(delta, r.duration)
    THEN LET lag_clamped == ClampI32(DurSub(delta, r.duration))
             r1 == [r EXCEPT !.delta_rem = saturating_add(r.delta_rem, lag_clamped)]
         IN [rate |-> set_last_tick(increment_ticks(r1), instant), ret |-> Some(delta)]
    ELSE [rate |-> r, ret |-> None]

Rate_do_tick(r, instant) ==
    LET delta == last_elapsed(r, instant) IN
    IF DurGE(DurAdd(delta, DurationNew0(r.delta_rem)), r.duration)
    THEN LET lag_clamped == ClampI32(DurSub(delta, r.duration))
             r1 == [r EXCEPT !.delta_rem = saturating_add(r.delta_rem, lag_clamped)]
         IN [rate |-> set_last_tick(increment_ticks(r1), instant), ret |-> Some(delta)]
    ELSE [rate |-> r, ret |-> None]

\* do_tick_fast taking delta_rem into the due check
Rate_do_tick_fast_compensated(r, instant) ==
    LET delta == last_elapsed(r, instant) IN
    IF DurGE(DurAdd(delta, DurationNew0(r.delta_rem)), r.duration)
    THEN [rate |-> set_last_tick(increment_ticks(r), instant), ret |-> Some(delta)]
    ELSE [rate |-> r, ret |-> None]

Rate_do_tick_fast(r, instant) ==
    LET delta == last_elapsed(r, instant) IN
    IF DurGE(delta, r.duration)
    THEN [rate |-> set_last_tick(increment_ticks(r), instant), ret |-> Some(delta)]
    ELSE [rate |-> r, ret |-> None]

-----------------------------------------------------------------------------
(* Rate: the projection of a tick index to an instant *)

\* Tick indices are u64 and the projected seconds are i64, so both are kept wide:
\* [a, s, ns] is a * 2^52 + s + ns / 10^9, with s small against 2^52. A Duration
\* or Instant of the rest of the model is the wide value with a = 0.
Wide(a, s, ns) == [a |-> a, s |-> s, ns |-> ns]

WideOf(d) == Wide(0, d.s, d.ns)

WAdd(x, y) ==
    LET n == Norm(x.s + y.s, x.ns + y.ns) IN Wide(x.a + y.a, n.s, n.ns)

WSub(x, y) ==
    LET n == Norm(x.s - y.s, x.ns - y.ns) IN Wide(x.a - y.a, n.s, n.ns)

\* 2^63 and above, or below -2^63: outside the seconds of a Duration and of an
\* Instant (i64)
OutOfI64(x) ==
    \/ x.a > 2048 \/ (x.a = 2048 /\ x.s >= 0)
    \/ x.a < -2048 \/ (x.a = -2048 /\ x.s < 0)

\* i64::MAX seconds
DurationMAX == Wide(2048, -1, 0)

RECURSIVE BitLen(_)
BitLen(x) == IF x = 0 THEN 0 ELSE 1 + BitLen(x \div 2)

RECURSIVE Pow2(_)
Pow2(e) == IF e = 0 THEN 1 ELSE 2 * Pow2(e - 1)

\* the spacing of the f64 values around the tick index n: 1 below 2^53, then 2, 4,
\* ... up to 2048 from 2^63 on
F64Spacing(n) ==
    LET top == IF n.s >= 0 THEN n.a ELSE n.a - 1 IN
    IF top <= 1 THEN 1 ELSE Pow2(BitLen(top) - 1)

\* `ticks as f64`: the nearest f64, a tie going to the even mantissa
U64AsF64(n) ==
    LET q == F64Spacing(n)
        lo == (n.s \div q) * q
        r == n.s - lo
        up == \/ 2 * r > q
              \/ 2 * r = q /\ (lo \div q) % 2 = 1
    IN [n EXCEPT !.s = IF up THEN lo + q ELSE lo]

\* self.duration.as_seconds_f64() * x for a duration of h half seconds with h a
\* power of two or 0, where the product is exact: the float x scaled by h / 2.
\* Every tick index of the model from 2^52 on has an even a.
F64Times(duration, x) ==
    LET h == 2 * duration.s + (IF duration.ns = 0 THEN 0 ELSE 1)
        s2 == x.s * h
    IN Wide((x.a * h) \div 2, s2 \div 2, (s2 % 2) * (G \div 2))

\* a result of a call: a panic, or a value returned (for an Option, some tells
\* Some from None)
Panicked == [panic |-> TRUE, some |-> FALSE, v |-> Wide(0, 0, 0)]

Returned(v) == [panic |-> FALSE, some |-> TRUE, v |-> v]

ReturnedNone == [panic |-> FALSE, some |-> FALSE, v |-> Wide(0, 0, 0)]

\* Duration::seconds_f64 of a whole number of half seconds. Inside the range of a
\* Duration the conversion is exact. Outside it the time crate decides: the
\* versions that check the range panic, the earlier ones convert with a
\* saturating cast.
seconds_f64(x) ==
    IF OutOfI64(x) THEN {Panicked, Returned(DurationMAX)} ELSE {Returned(x)}

\* the outcomes of duration_ticks(ticks)
Rate_duration_ticks(r, ticks) == seconds_f64(F64Times(r.duration, U64AsF64(ticks)))

\* Instant + Duration panics on overflow
InstantAdd(instant, d) ==
    LET sum == WAdd(WideOf(instant), d) IN
    IF OutOfI64(sum) THEN Panicked ELSE Returned(sum)

\* Instant::checked_add
checked_add(instant, d) ==
    LET sum == WAdd(WideOf(instant), d) IN
    IF OutOfI64(sum) THEN ReturnedNone ELSE Returned(sum)

Rate_instant_tick(r, tick) ==
    {IF d.panic THEN Panicked ELSE InstantAdd(r.first_tick, d.v) :
        d \in Rate_duration_ticks(r, tick)}

Rate_instant_tick_checked(r, tick) ==
    {IF d.panic THEN Panicked ELSE checked_add(r.first_tick, d.v) :
        d \in Rate_duration_ticks(r, tick)}

Rate_tick_elapsed(r, tick, instant) ==
    {IF i.panic THEN Panicked ELSE Returned(WSub(WideOf(instant), i.v)) :
        i \in Rate_instant_tick(r, tick)}

-----------------------------------------------------------------------------
(* RateStats *)

\* The capacity of avg_ring
RingCap == 1024

\* A u64 count of nanoseconds, hi * 2^64 + s * 10^9 + ns: a non-negative count has
\* hi = 0, and a negative i128 cast with `as u64` keeps its (s, ns) and has hi = 1.
AsU64(d) == [hi |-> IF d.s < 0 THEN 1 ELSE 0, s |-> d.s, ns |-> d.ns]

U64Zero == [hi |-> 0, s |-> 0, ns |-> 0]

U64Add(a, b) ==
    LET n == Norm(a.s + b.s, a.ns + b.ns) IN [hi |-> a.hi + b.hi, s |-> n.s, ns |-> n.ns]

U64Max(a, b) ==
    IF a.hi > b.hi \/ (a.hi = b.hi /\ DurGE(a, b)) THEN a ELSE b

\* a sum of u64 values is 2^64 or more
U64Overflows(x) == x.hi >= 2 \/ (x.hi = 1 /\ x.s >= 0)

\* a sum of u64 values as += leaves it in a build without overflow checks: the sum
\* modulo 2^64
U64Wrap(x) == [x EXCEPT !.hi = IF x.s < 0 THEN 1 ELSE 0]

\* The averages are kept as their exact accumulators: avg_16 holds the sum that the
\* code divides by 16., and likewise avg_128 and avg_1024 (a division of a sum below
\* 2^53 by a power of two is exact in f64, so 0.0 is the sum 0).
RateStats_new ==
    [avg_ring |-> <<>>,
     avg_16 |-> U64Zero, avg_128 |-> U64Zero, avg_1024 |-> U64Zero,
     max_ns_16 |-> U64Zero, max_ns_128 |-> U64Zero, max_ns_1024 |-> U64Zero]

\* push_back of a ring that refuses a sample when it is full
push_back_saturating(ring, v) ==
    IF Len(ring) >= RingCap THEN ring ELSE Append(ring, v)

\* ArrayDeque<[u64; 1024], Wrapping>::push_back
push_back(ring, v) ==
    IF Len(ring) >= RingCap THEN Append(Tail(ring), v) ELSE Append(ring, v)

\* cmp::max(0_i128, duration.whole_nanoseconds()) as u64
RateStats_add(st, duration) ==
    [st EXCEPT !.avg_ring = push_back(@, AsU64(IF DurGE(duration, ZERO) THEN duration ELSE ZERO))]

RateStats_add_ns(st, nanoseconds) ==
    [st EXCEPT !.avg_ring = push_back(@, nanoseconds)]

\* the k-th call of next_back() on a fresh iterator, with unwrap_or(&0)
NextBack(ring, k) ==
    IF k <= Len(ring) THEN ring[Len(ring) - k + 1] ELSE U64Zero

\* the sum and the maximum of the next_back() results number k, k + step, ...: n of
\* them, taken by halves; past the front of the ring every result is 0. The sum is
\* the exact one; U64Wrap and U64Overflows tell what a u64 makes of it.
RECURSIVE SumBack(_, _, _, _)
SumBack(ring, k, step, n) ==
    IF n = 0 \/ k > Len(ring) THEN U64Zero
    ELSE IF n = 1 THEN NextBack(ring, k)
    ELSE LET h == n \div 2 IN
         U64Add(SumBack(ring, k, step, h), SumBack(ring, k + h * step, step, n - h))

RECURSIVE MaxBack(_, _, _, _)
MaxBack(ring, k, step, n) ==
    IF n = 0 \/ k > Len(ring) THEN U64Zero
    ELSE IF n = 1 THEN NextBack(ring, k)
    ELSE LET h == n \div 2 IN
         U64Max(MaxBack(ring, k, step, h), MaxBack(ring, k + h * step, step, n - h))

\* The 16 window calls next_back() twice per round: the first result feeds the
\* maximum, the second the accumulator.
Update16(st, tick_count) ==
    IF tick_count % 16 = 0
    THEN [st EXCEPT !.max_ns_16 = MaxBack(st.avg_ring, 1, 2, 16),
                    !.avg_16 = U64Wrap(SumBack(st.avg_ring, 2, 2, 16))]
    ELSE st

\* the 128 window recomputed on every multiple of 16
Update128_every16(st, tick_count) ==
    IF tick_count % 16 = 0
    THEN [st EXCEPT !.max_ns_128 = MaxBack(st.avg_ring, 1, 1, 128),
                    !.avg_128 = U64Wrap(SumBack(st.avg_ring, 1, 1, 128))]
    ELSE st

Update128(st, tick_count) ==
    IF tick_count % 128 = 0
    THEN [st EXCEPT !.max_ns_128 = MaxBack(st.avg_ring, 1, 1, 128),
                    !.avg_128 = U64Wrap(SumBack(st.avg_ring, 1, 1, 128))]
    ELSE st

Update1024(st, tick_count) ==
    IF tick_count % 1024 = 0
    THEN [st EXCEPT !.max_ns_1024 = MaxBack(st.avg_ring, 1, 1, 1024),
                    !.avg_1024 = U64Wrap(SumBack(st.avg_ring, 1, 1, 1024))]
    ELSE st

\* In a build with overflow checks avg_accumulator += panics when the sum of a
\* window that update(tick_count) recomputes reaches 2^64.
update_overflows(st, tick_count) ==
    \/ tick_count % 16 = 0 /\ U64Overflows(SumBack(st.avg_ring, 2, 2, 16))
    \/ tick_count % 128 = 0 /\ U64Overflows(SumBack(st.avg_ring, 1, 1, 128))
    \/ tick_count % 1024 = 0 /\ U64Overflows(SumBack(st.avg_ring, 1, 1, 1024))

\* update in a build without overflow checks, or when no sum overflows
RateStats_update(st, tick_count) ==
    Update1024(Update128(Update16(st, tick_count), tick_count), tick_count)

\* reset zeroing the maximum of the 16 window too
RateStats_reset_all(st) ==
    [st EXCEPT !.avg_16 = U64Zero, !.avg_128 = U64Zero, !.avg_1024 = U64Zero,
               !.max_ns_16 = U64Zero, !.max_ns_128 = U64Zero, !.max_ns_1024 = U64Zero]

RateStats_reset(st) ==
    [st EXCEPT !.avg_16 = U64Zero, !.avg_128 = U64Zero, !.avg_1024 = U64Zero,
               !.max_ns_128 = U64Zero, !.max_ns_1024 = U64Zero]

-----------------------------------------------------------------------------
(* Looper *)

EmptyMap == [k \in {} |-> 0]

Insert(map, key, v) == [k \in DOMAIN map \cup {key} |-> IF k = key THEN v ELSE map[k]]

\* impl Default for Looper; Rate::default() reads the clock twice
LooperNewAt(t1, t2) ==
    [status |-> "Active",
     root_rate |-> RateNewAt(ZERO, t1, t2),
     root_stats |-> RateStats_new,
     rates |-> EmptyMap,
     stats |-> EmptyMap]

\* measure without the match on the status
Looper_measure_unguarded(l, now) ==
    LET delta == DurSub(now, l.root_rate.last_tick)
        rr == increment_ticks(set_last_tick(l.root_rate, now))
        ns == AsU64(delta)
        rs == RateStats_update(RateStats_add_ns(l.root_stats, ns), rr.ticks)
    IN [looper |-> [l EXCEPT !.root_rate = rr, !.status = "Active", !.root_stats = rs],
        ret |-> Some(<<now, delta>>)]

\* measure calling update with the tick count read before the increment
Looper_measure_stale_count(l, now) ==
    IF l.status = "Asleep"
    THEN LET delta == DurSub(now, l.root_rate.last_tick)
             rr == increment_ticks(set_last_tick(l.root_rate, now))
             ns == AsU64(delta)
             rs == RateStats_update(RateStats_add_ns(l.root_stats, ns), l.root_rate.ticks)
         IN [looper |-> [l EXCEPT !.root_rate = rr, !.status = "Active", !.root_stats = rs],
             ret |-> Some(<<now, delta>>)]
    ELSE [looper |-> l, ret |-> None]

\* measure asking the root rate whether a tick is due
Looper_measure_gated(l, now) ==
    LET res == Rate_do_tick(l.root_rate, now) IN
    IF l.status = "Asleep" /\ res.ret # None
    THEN LET delta == res.ret[1]
             rs == RateStats_update(RateStats_add_ns(l.root_stats, AsU64(delta)),
                                    res.rate.ticks)
         IN [looper |-> [l EXCEPT !.root_rate = res.rate, !.status = "Active",
                                  !.root_stats = rs],
             ret |-> Some(<<now, delta>>)]
    ELSE [looper |-> l, ret |-> None]

\* now is the reading of Instant::now() in now_delta
Looper_measure(l, now) ==
    IF l.status = "Asleep"
    THEN LET delta == DurSub(now, l.root_rate.last_tick)
             rr == increment_ticks(set_last_tick(l.root_rate, now))
             ns == AsU64(delta)
             rs == RateStats_update(RateStats_add_ns(l.root_stats, ns), rr.ticks)
         IN [looper |-> [l EXCEPT !.root_rate = rr, !.status = "Active", !.root_stats = rs],
             ret |-> Some(<<now, delta>>)]
    ELSE [looper |-> l, ret |-> None]

\* t1, t2 are the readings of Instant::now() in Rate::reset
Looper_reset_root(l, t1, t2) ==
    [l EXCEPT !.status = "Asleep",
              !.root_rate = RateResetAt(@, t1, t2),
              !.root_stats = RateStats_reset(@)]

Looper_reset(l, t1, t2) == Looper_reset_root(l, t1, t2)

\* sleep waiting on any non-zero duration
Looper_sleep_nonzero(l, duration) ==
    IF l.status = "Active"
    THEN [looper |-> [l EXCEPT !.status = "Asleep"],
          waits |-> IF duration # ZERO THEN 1 ELSE 0]
    ELSE [looper |-> l, waits |-> 0]

\* sleep leaving the status as it was
Looper_sleep_stays_active(l, duration) ==
    IF l.status = "Active"
    THEN [looper |-> l, waits |-> IF is_positive(duration) THEN 1 ELSE 0]
    ELSE [looper |-> l, waits |-> 0]

\* waits is the number of calls of std::thread::sleep
Looper_sleep(l, duration) ==
    IF l.status = "Active"
    THEN [looper |-> [l EXCEPT !.status = "Asleep"],
          waits |-> IF is_positive(duration) THEN 1 ELSE 0]
    ELSE [looper |-> l, waits |-> 0]

\* The longest name a u128 holds, at six bits a character
MaxNameLen == 21

\* [A-Za-z0-9_]
ValidChars ==
    {"A", "B", "C", "D", "E", "F", "G", "H", "I", "J", "K", "L", "M",
     "N", "O", "P", "Q", "R", "S", "T", "U", "V", "W", "X", "Y", "Z",
     "a", "b", "c", "d", "e", "f", "g", "h", "i", "j", "k", "l", "m",
     "n", "o", "p", "q", "r", "s", "t", "u", "v", "w", "x", "y", "z",
     "0", "1", "2", "3", "4", "5", "6", "7", "8", "9", "_"}

\* encode_sixbit cutting a long name to the characters that fit
encode_sixbit_truncating(name) ==
    IF \A i \in 1 .. Len(name) : name[i] \in ValidChars
    THEN [ok |-> TRUE,
          key |-> IF Len(name) <= MaxNameLen THEN name ELSE SubSeq(name, 1, MaxNameLen)]
    ELSE [ok |-> FALSE, key |-> <<>>]

\* name.chars().encode_sixbit::<u128>(): a name is the sequence of its characters,
\* and the key of a valid name is the name itself (the encoding is reversible)
encode_sixbit(name) ==
    IF Len(name) <= MaxNameLen /\ \A i \in 1 .. Len(name) : name[i] \in ValidChars
    THEN [ok |-> TRUE, key |-> name]
    ELSE [ok |-> FALSE, key |-> <<>>]

Ok(x) == [ok |-> TRUE, v |-> x]

Err(e) == [ok |-> FALSE, v |-> e]

\* add_rate taking a rate already registered under the name out of the table, and
\* storing the new one only under a free name
Looper_add_rate_takes_previous(l, name, r, with_stats) ==
    LET e == encode_sixbit(name) IN
    IF ~e.ok THEN [looper |-> l, ret |-> Err("RateName")]
    ELSE LET st == IF with_stats THEN Insert(l.stats, e.key, RateStats_new) ELSE l.stats
             prev == IF e.key \in DOMAIN l.rates THEN Some(l.rates[e.key]) ELSE None
         IN [looper |-> [l EXCEPT !.stats = st,
                                  !.rates = IF e.key \in DOMAIN @
                                            THEN [k \in DOMAIN @ \ {e.key} |-> @[k]]
                                            ELSE Insert(@, e.key, r)],
             ret |-> Ok(prev)]

\* add_rate starting the stats of a replaced rate afresh
Looper_add_rate_fresh_stats(l, name, r, with_stats) ==
    LET e == encode_sixbit(name) IN
    IF ~e.ok THEN [looper |-> l, ret |-> Err("RateName")]
    ELSE LET st == IF with_stats \/ e.key \in DOMAIN l.stats
                   THEN Insert(l.stats, e.key, RateStats_new) ELSE l.stats
             prev == IF e.key \in DOMAIN l.rates THEN Some(l.rates[e.key]) ELSE None
         IN [looper |-> [l EXCEPT !.stats = st, !.rates = Insert(@, e.key, r)],
             ret |-> Ok(prev)]

\* add_rate keeping the rate already registered under the name
Looper_add_rate_keeps_first(l, name, r, with_stats) ==
    LET e == encode_sixbit(name) IN
    IF ~e.ok THEN [looper |-> l, ret |-> Err("RateName")]
    ELSE LET st == IF with_stats THEN Insert(l.stats, e.key, RateStats_new) ELSE l.stats
             prev == IF e.key \in DOMAIN l.rates THEN Some(l.rates[e.key]) ELSE None
         IN [looper |-> [l EXCEPT !.stats = st,
                                  !.rates = IF e.key \in DOMAIN @ THEN @ ELSE Insert(@, e.key, r)],
             ret |-> Ok(prev)]

Looper_add_rate(l, name, r, with_stats) ==
    LET e == encode_sixbit(name) IN
    IF ~e.ok THEN [looper |-> l, ret |-> Err("RateName")]
    ELSE LET st == IF with_stats THEN Insert(l.stats, e.key, RateStats_new) ELSE l.stats
             prev == IF e.key \in DOMAIN l.rates THEN Some(l.rates[e.key]) ELSE None
         IN [looper |-> [l EXCEPT !.stats = st, !.rates = Insert(@, e.key, r)],
             ret |-> Ok(prev)]

\* the sample of a tick pushed into every stats entry
RouteStats_all(l, key, r, delta) ==
    [k \in DOMAIN l.stats |->
        RateStats_update(RateStats_add_ns(l.stats[k], AsU64(delta)), r.ticks)]

\* the stats entry of key after a tick of that rate that returned Some(delta)
RouteStats(l, key, r, delta) ==
    IF key \in DOMAIN l.stats
    THEN [l.stats EXCEPT ![key] =
            RateStats_update(RateStats_add_ns(@, AsU64(delta)), r.ticks)]
    ELSE l.stats

\* do_tick checking named rates only while the loop is Active
Looper_do_tick_while_active(l, now, name) ==
    LET e == encode_sixbit(name) IN
    IF l.status = "Active" /\ e.ok /\ e.key \in DOMAIN l.rates
    THEN LET res == Rate_do_tick(l.rates[e.key], now) IN
         IF res.ret # None
         THEN [looper |-> [l EXCEPT !.rates[e.key] = res.rate,
                                    !.stats = RouteStats(l, e.key, res.rate, res.ret[1])],
               ret |-> res.ret]
         ELSE [looper |-> l, ret |-> None]
    ELSE [looper |-> l, ret |-> None]

Looper_do_tick(l, now, name) ==
    LET e == encode_sixbit(name) IN
    IF e.ok /\ e.key \in DOMAIN l.rates
    THEN LET res == Rate_do_tick(l.rates[e.key], now) IN
         IF res.ret # None
         THEN [looper |-> [l EXCEPT !.rates[e.key] = res.rate,
                                    !.stats = RouteStats(l, e.key, res.rate, res.ret[1])],
               ret |-> res.ret]
         ELSE [looper |-> l, ret |-> None]
    ELSE [looper |-> l, ret |-> None]

Looper_do_tick_fast(l, now, name) ==
    LET e == encode_sixbit(name) IN
    IF e.ok /\ e.key \in DOMAIN l.rates
    THEN LET res == Rate_do_tick_fast(l.rates[e.key], now) IN
         IF res.ret # None
         THEN [looper |-> [l EXCEPT !.rates[e.key] = res.rate,
                                    !.stats = RouteStats(l, e.key, res.rate, res.ret[1])],
               ret |-> res.ret]
         ELSE [looper |-> l, ret |-> None]
    ELSE [looper |-> l, ret |-> None]

\* ref_rate falling back on the root rate
Looper_ref_rate_or_root(l, name) ==
    LET e == encode_sixbit(name) IN
    IF e.ok /\ e.key \in DOMAIN l.rates THEN Some(l.rates[e.key]) ELSE Some(l.root_rate)

\* the rate the returned reference points to
Looper_ref_rate(l, name) ==
    LET e == encode_sixbit(name) IN
    IF e.ok /\ e.key \in DOMAIN l.rates THEN Some(l.rates[e.key]) ELSE None

\* the rate the returned exclusive reference points to; the lookup itself writes
\* nothing
Looper_mut_rate(l, name) ==
    LET e == encode_sixbit(name) IN
    IF e.ok /\ e.key \in DOMAIN l.rates THEN Some(l.rates[e.key]) ELSE None

\* the least of a non-empty set of durations
MinDuration(ds) == CHOOSE d \in ds : \A x \in ds : DurGE(x, d)

\* fastest_rate_duration taking the root rate into the scan
Looper_fastest_rate_duration_with_root(l) ==
    Some(MinDuration({l.rates[k].duration : k \in DOMAIN l.rates} \cup {l.root_rate.duration}))

\* self.rates.iter().min_by(duration).map(duration)
Looper_fastest_rate_duration(l) ==
    IF DOMAIN l.rates = {} THEN None
    ELSE Some(MinDuration({l.rates[k].duration : k \in DOMAIN l.rates}))

-----------------------------------------------------------------------------
(* A Rate driven directly by its owner *)

Call(op, arg, ret) == [op |-> op, arg |-> arg, ret |-> ret, waits |-> 0]

\* a duration cut to the i32 range of nanoseconds
CutI32(d) ==
    IF DurGT(d, DurationNew0(I32_MAX)) THEN DurationNew0(I32_MAX)
    ELSE IF DurGT(DurationNew0(I32_MIN), d) THEN DurationNew0(I32_MIN)
    ELSE d

\* do_tick(instant) on r, when it fires, neither clamps the lag nor saturates the sum
Unclamped(r, instant) ==
    LET lag == DurSub(last_elapsed(r, instant), r.duration)
        sum == DurAdd(DurationNew0(r.delta_rem), lag)
    IN CutI32(lag) = lag /\ CutI32(sum) = sum

\* the polling of a Rate that has just been built or reset: nothing passed yet, and
\* the twin is a copy of the Rate
PollOf(r) ==
    [origin |-> r.last_tick, prev |-> r.last_tick, gap |-> ZERO,
     rising |-> TRUE, exact |-> TRUE, fast |-> r]

\* the polling record where no Rate is polled
Unpolled == PollOf(RateNewAt(ZERO, ZERO, ZERO))

RateInit ==
    /\ \E d \in DurationSet, t1 \in {ZERO, Dur(1, 0)} :
         \E t2 \in Nows(t1) :
            /\ rate = RateNewAt(d, t1, t2)
            /\ clock = t2
            /\ call = Call("new", d, None)
    /\ sched = "regular"
    /\ looper = LooperNewAt(ZERO, ZERO)
    /\ stats = RateStats_new
    /\ pushes = 0
    /\ trail = <<>>
    /\ poll = Unpolled
    /\ counted = Counted(0, FALSE)

RateDoTick ==
    /\ rate.ticks < MaxTicks
    /\ \E instant \in InstantSet :
         LET res == Rate_do_tick(rate, instant) IN
         /\ rate' = res.rate
         /\ call' = Call("do_tick", instant, res.ret)
         /\ sched' = IF sched = "regular" /\ instant = DurAdd(rate.last_tick, rate.duration)
                     THEN "regular"
                     ELSE IF sched # "other" /\ (res.ret = None \/ Unclamped(rate, instant))
                     THEN "do_tick"
                     ELSE "other"
    /\ UNCHANGED <<clock, looper, trail, stats, pushes, poll, counted>>

RateDoTickFast ==
    /\ rate.ticks < MaxTicks
    /\ \E instant \in InstantSet :
         LET res == Rate_do_tick_fast(rate, instant) IN
         /\ rate' = res.rate
         /\ call' = Call("do_tick_fast", instant, res.ret)
    /\ sched' = "other"
    /\ UNCHANGED <<clock, looper, trail, stats, pushes, poll, counted>>

RateReset ==
    /\ \E t1 \in Nows(clock) :
         \E t2 \in Nows(t1) :
            /\ rate' = RateResetAt(rate, t1, t2)
            /\ clock' = t2
    /\ call' = Call("reset", None, None)
    /\ sched' = "regular"
    /\ UNCHANGED <<looper, trail, stats, pushes, poll, counted>>

\* the owner counts a tick by hand
RateIncrementTicks ==
    /\ rate.ticks < MaxTicks
    /\ rate' = increment_ticks(rate)
    /\ call' = Call("increment_ticks", None, None)
    /\ sched' = "other"
    /\ UNCHANGED <<clock, looper, trail, stats, pushes, poll, counted>>

RateNext == RateDoTick \/ RateDoTickFast \/ RateReset \/ RateIncrementTicks

SpecRate == RateInit /\ [][RateNext]_vars

-----------------------------------------------------------------------------
(* Properties of Rate::do_tick and Rate::do_tick_fast, checked under SpecRate *)

\* delta + delta_rem >= duration, for the rate r and the instant passed
Due(r, instant) ==
    DurGE(DurAdd(DurSub(instant, r.last_tick), DurationNew0(r.delta_rem)), r.duration)

C6_DoTickNoneFrame ==
    [][call'.op = "do_tick" =>
        /\ ~Due(rate, call'.arg) => call'.ret = None
        /\ call'.ret = None => rate' = rate]_vars

\* a do_tick returned None on a rate that carries lag and has ticked
C6_Witness ==
    /\ call.op = "do_tick"
    /\ call.ret = None
    /\ rate.delta_rem > 0
    /\ rate.ticks >= 1

\* C7: do_tick_fast(instant) fires if and only if instant - last_tick >= duration,
\* whatever delta_rem is; when it fires it returns Some(delta), ticks grows by 1 and
\* last_tick = instant; it never modifies delta_rem, and when it does not fire it
\* changes no field at all.
C7_DoTickFast ==
    [][call'.op = "do_tick_fast" =>
        LET delta == DurSub(call'.arg, rate.last_tick) IN
        /\ (call'.ret # None) <=> DurGE(delta, rate.duration)
        /\ call'.ret # None =>
            /\ call'.ret = Some(delta)
            /\ rate'.ticks = rate.ticks + 1
            /\ rate'.last_tick = call'.arg
        /\ rate'.delta_rem = rate.delta_rem
        /\ call'.ret = None => rate' = rate]_vars

\* a do_tick_fast did not fire although delta + delta_rem reached the duration
C7_Witness ==
    /\ call.op = "do_tick_fast"
    /\ call.ret = None
    /\ rate.delta_rem > 0
    /\ Due(rate, call.arg)

\* C8: for a Rate with duration D > 0 starting from new/reset, if do_tick is called
\* with the instants last_tick + D, then + D again, and so on, every call fires,
\* ticks grows by exactly 1 per call and delta_rem is 0 after every call.
C8_RegularSchedule ==
    [][(/\ sched = "regular"
        /\ call'.op = "do_tick"
        /\ DurGT(rate.duration, ZERO)
        /\ call'.arg = DurAdd(rate.last_tick, rate.duration)) =>
        /\ call'.ret = Some(rate.duration)
        /\ rate'.ticks = rate.ticks + 1
        /\ rate'.delta_rem = 0]_vars

\* the third regular tick of a rate with a positive duration
C8_Witness ==
    /\ sched = "regular"
    /\ call.op = "do_tick"
    /\ DurGT(rate.duration, ZERO)
    /\ rate.ticks = 3

\* C9: lag compensation. For a fresh Rate with duration D, once a first do_tick
\* fired late at delta1 = D + L with 0 < L <= D (leaving delta_rem = L), a second
\* do_tick at any delta2 with D - L <= delta2 < D still fires, ticks becomes 2 and
\* delta_rem becomes L + delta2 - D; do_tick_fast would not fire on that second call.
C9_LagCompensation ==
    [][(/\ rate.ticks = 1
        /\ rate.delta_rem > 0
        /\ DurGE(rate.duration, DurationNew0(rate.delta_rem))
        /\ call'.op = "do_tick"
        /\ DurGT(rate.duration, DurSub(call'.arg, rate.last_tick))
        /\ DurGE(DurSub(call'.arg, rate.last_tick),
                 DurSub(rate.duration, DurationNew0(rate.delta_rem)))) =>
        LET delta2 == DurSub(call'.arg, rate.last_tick) IN
        /\ call'.ret = Some(delta2)
        /\ rate'.ticks = 2
        /\ DurationNew0(rate'.delta_rem) =
             DurSub(DurAdd(DurationNew0(rate.delta_rem), delta2), rate.duration)
        /\ Rate_do_tick_fast(rate, call'.arg).ret = None]_vars

\* the second tick fired on a delta shorter than the duration, the first having
\* left a lag no longer than the duration
C9_Witness ==
    /\ call.op = "do_tick"
    /\ call.ret # None
    /\ rate.ticks = 2
    /\ DurGT(rate.duration, call.ret[1])
    /\ DurGE(call.ret[1], ZERO)
    /\ DurGE(DurAdd(rate.duration, call.ret[1]),
             DurAdd(DurationNew0(rate.delta_rem), rate.duration))
    /\ DurGE(DurationNew0(rate.delta_rem), call.ret[1])

\* C10: for every reachable Rate state and every instant with
\* instant - last_tick <= 0, do_tick and do_tick_fast both return None, do not
\* increment ticks, do not move last_tick and leave delta_rem unchanged.
C10_NonPositiveDeltaNeverFires ==
    [][(/\ call'.op \in {"do_tick", "do_tick_fast"}
        /\ DurGE(ZERO, DurSub(call'.arg, rate.last_tick))) =>
        /\ call'.ret = None
        /\ rate'.ticks = rate.ticks
        /\ rate'.last_tick = rate.last_tick
        /\ rate'.delta_rem = rate.delta_rem]_vars

\* The documented part of C10: on a strictly negative delta do_tick returns None.
C10_NegativeDeltaDoTick ==
    [][(/\ call'.op = "do_tick"
        /\ DurGT(ZERO, DurSub(call'.arg, rate.last_tick))) =>
        call'.ret = None]_vars

\* C11: last_tick is never rewound: across do_tick and do_tick_fast calls with
\* arbitrary instants, last_tick after a call is greater than or equal to its value
\* before the call, and it changes only on a call that returns Some.
C11_LastTickNeverRewound ==
    [][call'.op \in {"do_tick", "do_tick_fast"} =>
        /\ DurGE(rate'.last_tick, rate.last_tick)
        /\ rate'.last_tick # rate.last_tick => call'.ret # None]_vars

\* The part of C11 that the code keeps: last_tick changes only on a call that
\* returns Some, and do_tick_fast never rewinds it.
C11_LastTickMovesOnSome ==
    [][call'.op \in {"do_tick", "do_tick_fast"} =>
        /\ rate'.last_tick # rate.last_tick => call'.ret # None
        /\ call'.op = "do_tick_fast" => DurGE(rate'.last_tick, rate.last_tick)]_vars

\* C12 for a Rate driven directly: beside do_tick and do_tick_fast calls that return
\* Some, the public increment_ticks() grows the counter by 1; only reset lowers it.
C12_RateTicks ==
    [][rate'.ticks # rate.ticks =>
        \/ /\ rate'.ticks = rate.ticks + 1
           /\ \/ call'.op \in {"do_tick", "do_tick_fast"} /\ call'.ret # None
              \/ call'.op = "increment_ticks"
        \/ call'.op = "reset" /\ rate'.ticks = 0]_vars

\* C13: Rate::reset(), from any reachable state, sets ticks to 0 and delta_rem to 0
\* and sets first_tick and last_tick both to the reset-time instant, while leaving
\* duration unchanged; Rate::new(d) produces the same state with duration d.
C13_ResetAnchorsAtOneInstant ==
    /\ [](call.op = "new" =>
            /\ rate.ticks = 0
            /\ rate.delta_rem = 0
            /\ rate.duration = call.arg
            /\ rate.first_tick = rate.last_tick)
    /\ [][call'.op = "reset" =>
            /\ rate'.ticks = 0
            /\ rate'.delta_rem = 0
            /\ rate'.duration = rate.duration
            /\ rate'.first_tick = rate'.last_tick
            /\ DurGE(rate'.first_tick, clock)
            /\ DurGE(clock', rate'.first_tick)]_vars

\* The part of C13 that the code keeps: the counters are zeroed, the duration stays,
\* and the anchors are two readings of the clock taken in this order during the call.
C13_ResetAnchorsInOrder ==
    /\ [](call.op = "new" =>
            /\ rate.ticks = 0
            /\ rate.delta_rem = 0
            /\ rate.duration = call.arg
            /\ DurGE(rate.last_tick, rate.first_tick))
    /\ [][call'.op = "reset" =>
            /\ rate'.ticks = 0
            /\ rate'.delta_rem = 0
            /\ rate'.duration = rate.duration
            /\ DurGE(rate'.first_tick, clock)
            /\ DurGE(rate'.last_tick, rate'.first_tick)
            /\ clock' = rate'.last_tick]_vars

RECURSIVE Times(_, _)
Times(d, n) == IF n = 0 THEN ZERO ELSE DurAdd(d, Times(d, n - 1))

\* C15: the long-run average matches the target: for a Rate with duration D >= 0
\* driven only by do_tick from new/reset, as long as no lag was clamped or
\* saturated, after every call last_tick - first_tick = ticks * D + delta_rem.
C15_MeanInterval ==
    sched # "other" =>
        DurSub(rate.last_tick, rate.first_tick) =
            DurAdd(Times(rate.duration, rate.ticks), DurationNew0(rate.delta_rem))

\* The part of C15 that the code keeps: every such do_tick moves last_tick by as
\* much as it moves ticks * D + delta_rem, so the two sides differ by what they
\* differed by at new/reset.
C15_MeanIntervalStep ==
    [][(call'.op = "do_tick" /\ sched' # "other") =>
        DurAdd(DurSub(rate'.last_tick, rate.last_tick),
               DurAdd(Times(rate.duration, rate.ticks), DurationNew0(rate.delta_rem))) =
            DurAdd(Times(rate.duration, rate'.ticks), DurationNew0(rate'.delta_rem))]_vars

\* C29: last_tick >= first_tick holds in every Rate state reachable from new/reset
\* by any sequence of do_tick and do_tick_fast calls with arbitrary instants
\* (including instants earlier than first_tick), for any duration >= 0.
C29_LastTickNotBeforeFirst == DurGE(rate.last_tick, rate.first_tick)

\* a do_tick fired on a negative delta and took last_tick back onto first_tick, on
\* a Rate whose first_tick is later than some of the instants passed
C29_Witness ==
    /\ call.op = "do_tick"
    /\ call.ret # None
    /\ DurGT(ZERO, call.ret[1])
    /\ rate.ticks >= 2
    /\ rate.last_tick = rate.first_tick
    /\ DurGT(rate.first_tick, ZERO)

\* C30: delta_rem is never negative: in every Rate state reachable from new/reset
\* through any sequence of do_tick and do_tick_fast calls with arbitrary instants
\* and duration >= 0, 0 <= delta_rem <= 2147483647, even though individual lags
\* (delta - duration) can be negative.
C30_DeltaRemNeverNegative ==
    /\ 0 <= rate.delta_rem
    /\ rate.delta_rem <= I32_MAX

\* a do_tick fired with a negative lag that used up the whole of delta_rem
C30_Witness ==
    /\ call.op = "do_tick"
    /\ call.ret # None
    /\ DurGT(rate.duration, call.ret[1])
    /\ rate.delta_rem = 0
    /\ rate.ticks >= 2

-----------------------------------------------------------------------------
(* A Rate polled by its owner, next to a twin polled through do_tick_fast *)

\* the instants in steps of 2.5 s
FarInstants ==
    {Dur((5 * k) \div 2, IF k % 2 = 1 THEN G \div 2 ELSE 0) : k \in 0 .. MaxPollSteps}

\* the instants the owner passes
PollInstants == InstantSet \cup FarInstants

\* the target durations per tick; with the last one a lag can pass i32::MAX ns
\* between two polls no further apart than the duration
PollDurations == DurationSet \cup {Dur(5, 0)}

\* the readings the clock gives at new and reset
PollClock == {ZERO, Half}

DurMax(a, b) == IF DurGE(a, b) THEN a ELSE b

\* the polling record after instant was passed to rate and to the twin; once the
\* instants have failed to rise, the last instant and the gap are not kept
Polled(p, r, instant) ==
    LET res == Rate_do_tick(r, instant)
        rising == p.rising /\ DurGT(instant, p.prev)
    IN [origin |-> p.origin,
        prev |-> IF rising THEN instant ELSE p.origin,
        gap |-> IF rising THEN DurMax(p.gap, DurSub(instant, p.prev)) ELSE ZERO,
        rising |-> rising,
        exact |-> p.exact /\ (res.ret = None \/ Unclamped(r, instant)),
        fast |-> Rate_do_tick_fast(p.fast, instant).rate]

PollInit ==
    /\ \E d \in PollDurations, t2 \in Nows(ZERO) \cap PollClock :
         /\ rate = RateNewAt(d, ZERO, t2)
         /\ clock = t2
         /\ call = Call("new", d, None)
         /\ poll = PollOf(RateNewAt(d, ZERO, t2))
    /\ sched = "regular"
    /\ looper = LooperNewAt(ZERO, ZERO)
    /\ stats = RateStats_new
    /\ pushes = 0
    /\ trail = <<>>
    /\ counted = Counted(0, FALSE)

\* the owner passes one instant to both rates: a.do_tick(instant), b.do_tick_fast(instant)
PollTick ==
    /\ rate.ticks < MaxTicks
    /\ \E instant \in PollInstants :
         /\ rate' = Rate_do_tick(rate, instant).rate
         /\ call' = Call("do_tick", instant, Rate_do_tick(rate, instant).ret)
         /\ poll' = Polled(poll, rate, instant)
    /\ UNCHANGED <<clock, sched, looper, trail, stats, pushes, counted>>

\* the owner resets both rates at once; they read the clock alike
PollReset ==
    /\ \E t1 \in Nows(clock) \cap PollClock :
         \E t2 \in Nows(t1) \cap PollClock :
            /\ rate' = RateResetAt(rate, t1, t2)
            /\ poll' = PollOf(RateResetAt(rate, t1, t2))
            /\ clock' = t2
    /\ call' = Call("reset", None, None)
    /\ UNCHANGED <<sched, looper, trail, stats, pushes, counted>>

PollNext == PollTick \/ PollReset

SpecPoll == PollInit /\ [][PollNext]_vars

\* after a call of a polling with strictly rising instants no further apart than
\* the positive duration
RegularPolling ==
    /\ call.op = "do_tick"
    /\ poll.rising
    /\ DurGT(rate.duration, ZERO)
    /\ DurGE(rate.duration, poll.gap)

\* the lag carried is less than the longest gap
LagBelowGap ==
    /\ 0 <= rate.delta_rem
    /\ DurGT(poll.gap, DurationNew0(rate.delta_rem))

\* the time elapsed since the polling started is less than a whole tick beyond the
\* ticks fired
WithinOneTick ==
    DurGT(Times(rate.duration, rate.ticks + 1), DurSub(poll.prev, poll.origin))

\* C31 as stated: bounded lag under regular polling. For a Rate with duration D > 0
\* starting from new/reset, if do_tick is called with strictly increasing instants
\* whose successive gaps are all at most g, with g <= D, then after every call
\* 0 <= delta_rem < g, and the fired tick count is never a whole tick behind the
\* elapsed time divided by D.
C31_BoundedLag == RegularPolling => (LagBelowGap /\ WithinOneTick)

\* C31 amended: after every such call 0 <= delta_rem < g; the fired tick count is
\* never a whole tick behind the elapsed time divided by D as long as no lag was cut
\* to the i32 range of nanoseconds.
C31_BoundedLagUnclamped ==
    RegularPolling => (LagBelowGap /\ (poll.exact => WithinOneTick))

\* a regular polling with gaps up to the duration has fired its third tick and
\* carries lag
C31_Witness ==
    /\ RegularPolling
    /\ poll.exact
    /\ poll.gap = rate.duration
    /\ call.ret # None
    /\ rate.ticks = 3
    /\ rate.delta_rem > 0

\* a regular polling of a Rate of 5 s per tick has lost lag to the clamp
C31_ClampedPolling ==
    /\ RegularPolling
    /\ ~poll.exact
    /\ rate.delta_rem = I32_MAX

\* C32: the compensated variant never falls behind the fast variant. For two Rates
\* with the same duration D >= 0 that start in the same fresh state and receive the
\* same sequence of instants, one through do_tick and the other through
\* do_tick_fast, after every call the tick count of the first is greater than or
\* equal to that of the second, as long as no lag is clamped; and any call on which
\* do_tick_fast would fire from a given state also makes do_tick fire from that state.
C32_CompensatedNotBehind ==
    /\ poll.exact => rate.ticks >= poll.fast.ticks
    /\ \A r \in {rate, poll.fast} :
        \A instant \in PollInstants :
            Rate_do_tick_fast(r, instant).ret # None => Rate_do_tick(r, instant).ret # None

\* the compensated Rate is a tick ahead of its twin, which has ticked, after an
\* instant that did not rise
C32_Witness ==
    /\ call.op = "do_tick"
    /\ poll.exact
    /\ ~poll.rising
    /\ poll.fast.ticks >= 1
    /\ rate.ticks > poll.fast.ticks
    /\ rate.delta_rem > 0

-----------------------------------------------------------------------------
(* The Looper driven by its host *)

LoopInstants == {t \in InstantSet : 2 * t.s + (IF t.ns = 0 THEN 0 ELSE 1) <= MaxLoopHalves}

\* the instants of the clock and of the host's tick checks when named rates are in play
HostInstants == {ZERO, Half}

\* the durations the host asks to sleep: negative, zero, positive
SleepSet == {Dur(-1, G \div 2), ZERO, Half}

Name21 == [i \in 1 .. MaxNameLen |-> "x"]

LCall(op, arg, ret, waits) == [op |-> op, arg |-> arg, ret |-> ret, waits |-> waits]

LooperInit ==
    /\ \E t2 \in Nows(ZERO) \cap HostInstants :
         /\ looper = LooperNewAt(ZERO, t2)
         /\ clock = t2
    /\ rate = RateNewAt(ZERO, ZERO, ZERO)
    /\ sched = "regular"
    /\ stats = RateStats_new
    /\ pushes = 0
    /\ call = LCall("new", None, None, 0)
    /\ trail = <<>>
    /\ poll = Unpolled
    /\ counted = Counted(0, FALSE)

\* the trail with the event e added; resets in a row count once, and the three
\* latest events are kept
TrailPush(tr, e) ==
    LET t == IF e = "R" /\ Len(tr) > 0 /\ tr[Len(tr)] = "R" THEN tr ELSE Append(tr, e)
    IN IF Len(t) > 3 THEN Tail(t) ELSE t

\* instants holds the readings the clock can give
Measure(instants, maxSamples) ==
    /\ looper.status = "Asleep" => Len(looper.root_stats.avg_ring) < maxSamples
    /\ \E now \in Nows(clock) \cap instants :
         LET res == Looper_measure(looper, now) IN
         /\ looper' = res.looper
         /\ clock' = IF looper.status = "Asleep" THEN now ELSE clock
         /\ call' = LCall("measure", None, res.ret, 0)
         /\ trail' = IF res.ret # None THEN TrailPush(trail, "M") ELSE trail
         /\ counted' = IF res.ret # None
                       THEN [counted EXCEPT !.measures = @ + 1] ELSE counted
    /\ UNCHANGED <<rate, sched, stats, pushes, poll>>

\* a blocking wait of d ends d later, or a half second after that
Sleep(instants) ==
    /\ \E d \in SleepSet :
         LET res == Looper_sleep(looper, d) IN
         /\ looper' = res.looper
         /\ call' = LCall("sleep", d, None, res.waits)
         /\ trail' = IF looper.status = "Active" THEN TrailPush(trail, "S") ELSE trail
         /\ IF res.waits = 0 THEN clock' = clock
            ELSE \E t \in instants :
                    /\ DurGE(t, DurAdd(clock, d))
                    /\ DurGE(DurAdd(DurAdd(clock, d), Half), t)
                    /\ clock' = t
    /\ UNCHANGED <<rate, sched, stats, pushes, poll, counted>>

Reset(instants) ==
    /\ \E t1 \in Nows(clock) \cap instants :
         \E t2 \in Nows(t1) \cap instants :
            /\ looper' = Looper_reset(looper, t1, t2)
            /\ clock' = t2
    /\ call' = LCall("reset", None, None, 0)
    /\ trail' = TrailPush(trail, "R")
    /\ counted' = Counted(0, FALSE)
    /\ UNCHANGED <<rate, sched, stats, pushes, poll>>

ResetRoot(instants) ==
    /\ \E t1 \in Nows(clock) \cap instants :
         \E t2 \in Nows(t1) \cap instants :
            /\ looper' = Looper_reset_root(looper, t1, t2)
            /\ clock' = t2
    /\ call' = LCall("reset_root", None, None, 0)
    /\ trail' = TrailPush(trail, "R")
    /\ counted' = Counted(0, FALSE)
    /\ UNCHANGED <<rate, sched, stats, pushes, poll>>

\* the calls of add_rate the host makes, <<name, duration, with_stats>>: a valid
\* name, one of 22 characters, one with a character outside [A-Za-z0-9_]
AddInputs ==
    {<<<<"a">>, d, s>> : d \in {ZERO, Half}, s \in BOOLEAN}
        \cup {<<Append(Name21, "x"), ZERO, TRUE>>, <<<<"a", "-">>, ZERO, TRUE>>}

\* the host builds the rate with Rate::new(d), both anchors reading the clock as it
\* stands, and hands it over
AddRate ==
    /\ \E in \in AddInputs :
         LET res == Looper_add_rate(looper, in[1], RateNewAt(in[2], clock, clock), in[3]) IN
         /\ looper' = res.looper
         /\ call' = LCall("add_rate", in, res.ret, 0)
    /\ UNCHANGED <<clock, rate, sched, trail, stats, pushes, poll, counted>>

\* the named rate and its ring have room for one more tick
Room(name) ==
    /\ name \in DOMAIN looper.rates => looper.rates[name].ticks < MaxNamedTicks
    /\ name \in DOMAIN looper.stats => Len(looper.stats[name].avg_ring) < MaxSamples

\* the tick checks the host makes: <<now, name>>
TickInputs ==
    {<<now, <<"a">>>> : now \in HostInstants}
        \cup {<<ZERO, Append(Name21, "x")>>, <<ZERO, <<"a", "-">>>>}

DoTick ==
    /\ \E in \in TickInputs :
         LET res == Looper_do_tick(looper, in[1], in[2]) IN
         /\ Room(in[2])
         /\ looper' = res.looper
         /\ call' = LCall("do_tick", in, res.ret, 0)
    /\ UNCHANGED <<clock, rate, sched, trail, stats, pushes, poll, counted>>

DoTickFast ==
    /\ \E in \in TickInputs :
         LET res == Looper_do_tick_fast(looper, in[1], in[2]) IN
         /\ Room(in[2])
         /\ looper' = res.looper
         /\ call' = LCall("do_tick_fast", in, res.ret, 0)
    /\ UNCHANGED <<clock, rate, sched, trail, stats, pushes, poll, counted>>

Next ==
    \/ Measure(HostInstants, MaxMeasures)
    \/ Sleep(HostInstants)
    \/ Reset(HostInstants)
    \/ ResetRoot(HostInstants)
    \/ AddRate
    \/ DoTick
    \/ DoTickFast

Spec == LooperInit /\ [][Next]_vars

\* the root cadence alone: measure, sleep and the resets
LoopNext ==
    \/ Measure(LoopInstants, MaxRootSamples)
    \/ Sleep(LoopInstants)
    \/ Reset(LoopInstants)
    \/ ResetRoot(LoopInstants)

SpecLoop == LooperInit /\ [][LoopNext]_vars

-----------------------------------------------------------------------------
(* Properties of the loop state machine *)

\* C1: a freshly constructed Looper is Active, and a measure() made while Active
\* returns None and changes nothing: the status stays Active and the root rate
\* (ticks, last_tick, first_tick) and the root stats (ring and window fields) are
\* as before.
C1_MeasureWhileActive ==
    /\ [](call.op = "new" => looper.status = "Active")
    /\ [][(call'.op = "measure" /\ looper.status = "Active") =>
            /\ call'.ret = None
            /\ looper'.status = "Active"
            /\ looper'.root_rate = looper.root_rate
            /\ looper'.root_stats = looper.root_stats]_vars

\* a measure() returned None on a Looper that had measured before
C1_Witness ==
    /\ call.op = "measure"
    /\ call.ret = None
    /\ looper.status = "Active"
    /\ looper.root_rate.ticks >= 1

\* C2: a measure() made while Asleep returns Some((now, delta)) with
\* delta = now - (root last_tick before the call), sets the root last_tick to now,
\* grows the root tick count by exactly 1, pushes exactly one sample, delta in
\* nanoseconds, into the root ring, calls root_stats.update with the new root tick
\* count, and leaves the status Active.
C2_MeasureWhileAsleep ==
    [][(call'.op = "measure" /\ looper.status = "Asleep") =>
        LET now == clock'
            delta == DurSub(now, looper.root_rate.last_tick)
            pushed == [looper.root_stats EXCEPT
                         !.avg_ring = push_back(@, AsU64(delta))]
        IN /\ call'.ret = Some(<<now, delta>>)
           /\ looper'.root_rate.last_tick = now
           /\ looper'.root_rate.ticks = looper.root_rate.ticks + 1
           /\ looper'.root_stats.avg_ring = pushed.avg_ring
           /\ looper'.root_stats = RateStats_update(pushed, looper.root_rate.ticks + 1)
           /\ looper'.status = "Active"]_vars

\* the sixteenth measure recomputed the 16 window over a ring that holds a
\* non-zero sample
C2_Witness ==
    /\ call.op = "measure"
    /\ call.ret # None
    /\ looper.root_rate.ticks = 16
    /\ looper.root_stats.max_ns_16 # U64Zero

\* C3: sleep(d) made while Active sets the status to Asleep and performs exactly
\* one blocking wait if d is strictly positive and none if d is zero or negative;
\* sleep(d) made while Asleep performs no wait and changes no state.
C3_Sleep ==
    [][call'.op = "sleep" =>
        /\ looper.status = "Active" =>
            /\ looper' = [looper EXCEPT !.status = "Asleep"]
            /\ call'.waits = IF DurGT(call'.arg, ZERO) THEN 1 ELSE 0
        /\ looper.status = "Asleep" =>
            /\ looper' = looper
            /\ call'.waits = 0
            /\ clock' = clock]_vars

\* a sleep of a negative duration took effect without a wait
C3_Witness ==
    /\ call.op = "sleep"
    /\ DurGT(ZERO, call.arg)
    /\ call.waits = 0
    /\ looper.status = "Asleep"
    /\ Len(trail) > 0
    /\ trail[Len(trail)] = "S"
    /\ looper.root_rate.ticks >= 1

\* an event b lies strictly between the places i and j of the trail
Between(i, j, bs) == \E k \in (i + 1) .. (j - 1) : trail[k] \in bs

\* between any two events a of the trail lies an event of bs
Alternates(a, bs) ==
    \A i, j \in 1 .. Len(trail) :
        (i < j /\ trail[i] = a /\ trail[j] = a) => Between(i, j, bs)

\* C4 as stated: between any two measure() calls that return Some there is a sleep()
\* made while Active, and between any two sleep() calls made while Active there is a
\* measure() that returned Some.
C4_StrictAlternation ==
    /\ Alternates("M", {"S"})
    /\ Alternates("S", {"M"})

\* C4 amended: between any two measure() calls that return Some there is a sleep()
\* made while Active or a reset() / reset_root(); between any two sleep() calls made
\* while Active there is a measure() that returned Some.
C4_AlternationUpToReset ==
    /\ Alternates("M", {"S", "R"})
    /\ Alternates("S", {"M"})

\* a measure returned Some after a sleep, a second one after a reset alone
C4_Witness ==
    /\ trail = <<"M", "R", "M">>
    /\ call.op = "measure"
    /\ looper.root_rate.ticks = 1

\* the tick counts of the root rate and of the named rate k grow by 1, and only
\* through a call of ops that returned Some (rootOps for the root rate, rateOps for
\* a named rate), and fall only to 0 through a reset; add_rate puts another Rate
\* under a name, so the entry is not compared across it
TicksMoveBy(rootOps, rateOps) ==
    /\ looper'.root_rate.ticks # looper.root_rate.ticks =>
        \/ /\ looper'.root_rate.ticks = looper.root_rate.ticks + 1
           /\ call'.op \in rootOps
           /\ call'.ret # None
        \/ /\ call'.op \in {"reset", "reset_root"}
           /\ looper'.root_rate.ticks = 0
    /\ \A k \in DOMAIN looper.rates :
        (call'.op # "add_rate" /\ looper'.rates[k].ticks # looper.rates[k].ticks) =>
            /\ looper'.rates[k].ticks = looper.rates[k].ticks + 1
            /\ call'.op \in rateOps
            /\ call'.ret # None
            /\ call'.arg[2] = k

C21_LooperReset ==
    [][call'.op \in {"reset", "reset_root"} =>
        /\ looper'.status = "Asleep"
        /\ looper'.root_rate.ticks = 0
        /\ looper'.root_rate.delta_rem = 0
        /\ looper'.root_rate.first_tick = looper'.root_rate.last_tick
        /\ looper'.root_rate.last_tick = clock'
        /\ looper'.root_stats = RateStats_reset(looper.root_stats)
        /\ looper'.rates = looper.rates
        /\ looper'.stats = looper.stats]_vars

\* What holds of C21 with the anchors as the code reads them: the status is Asleep,
\* the root rate has ticks = 0 and delta_rem = 0 and keeps its duration, its anchors
\* are two readings of the clock made during the call, first_tick no later than
\* last_tick, the root stats are reset, and the named tables are as before.
C21_LooperResetTwoReadings ==
    [][call'.op \in {"reset", "reset_root"} =>
        /\ looper'.status = "Asleep"
        /\ looper'.root_rate.ticks = 0
        /\ looper'.root_rate.delta_rem = 0
        /\ looper'.root_rate.duration = looper.root_rate.duration
        /\ DurGE(looper'.root_rate.first_tick, clock)
        /\ DurGE(looper'.root_rate.last_tick, looper'.root_rate.first_tick)
        /\ looper'.root_rate.last_tick = clock'
        /\ looper'.root_stats = RateStats_reset(looper.root_stats)
        /\ looper'.rates = looper.rates
        /\ looper'.stats = looper.stats]_vars

\* a reset made while Active on a Looper that holds a ticked named rate with a
\* sample, after a measure
C21_ResetReached ==
    /\ call.op \in {"reset", "reset_root"}
    /\ looper.status = "Asleep"
    /\ <<"a">> \in DOMAIN looper.stats
    /\ Len(looper.stats[<<"a">>].avg_ring) = 1
    /\ looper.rates[<<"a">>].ticks = 1
    /\ Len(looper.root_stats.avg_ring) >= 1
    /\ looper.root_rate.first_tick # looper.root_rate.last_tick

-----------------------------------------------------------------------------
(* The root rate written by the host through mut_root_rate() *)

\* the Rate the exclusive reference of mut_root_rate() points to
Looper_mut_root_rate(l) == l.root_rate

\* the instants the host passes to the root rate
RootInstants == {ZERO, Half, Dur(1, 0)}

\* l.mut_root_rate().increment_ticks()
RootIncrementTicks ==
    /\ looper.root_rate.ticks < MaxTicks
    /\ looper' = [looper EXCEPT !.root_rate = increment_ticks(Looper_mut_root_rate(looper))]
    /\ call' = LCall("root_increment_ticks", None, None, 0)
    /\ counted' = [counted EXCEPT !.written = TRUE]
    /\ UNCHANGED <<clock, rate, sched, trail, stats, pushes, poll>>

\* l.mut_root_rate().do_tick(instant)
RootDoTick ==
    /\ looper.root_rate.ticks < MaxTicks
    /\ \E instant \in RootInstants :
         LET res == Rate_do_tick(Looper_mut_root_rate(looper), instant) IN
         /\ looper' = [looper EXCEPT !.root_rate = res.rate]
         /\ call' = LCall("root_do_tick", instant, res.ret, 0)
         /\ counted' = IF res.ret # None THEN [counted EXCEPT !.written = TRUE] ELSE counted
    /\ UNCHANGED <<clock, rate, sched, trail, stats, pushes, poll>>

\* l.mut_root_rate().set_duration(d)
RootSetDuration ==
    /\ \E d \in DurationSet :
         /\ looper' = [looper EXCEPT !.root_rate = set_duration(Looper_mut_root_rate(looper), d)]
         /\ call' = LCall("root_set_duration", d, None, 0)
         /\ counted' = [counted EXCEPT !.written = TRUE]
    /\ UNCHANGED <<clock, rate, sched, trail, stats, pushes, poll>>

RootNext ==
    \/ Measure(HostInstants, MaxMeasures)
    \/ Sleep(HostInstants)
    \/ Reset(HostInstants)
    \/ ResetRoot(HostInstants)
    \/ RootIncrementTicks
    \/ RootDoTick
    \/ RootSetDuration

SpecRoot == LooperInit /\ [][RootNext]_vars

\* a measure() made while Asleep succeeds whatever the root rate's duration and
\* delta_rem are, and no measure() changes the root rate's first_tick, duration or
\* delta_rem
MeasureNotGated ==
    [][call'.op = "measure" =>
        /\ looper.status = "Asleep" => call'.ret # None
        /\ looper'.root_rate.first_tick = looper.root_rate.first_tick
        /\ looper'.root_rate.duration = looper.root_rate.duration
        /\ looper'.root_rate.delta_rem = looper.root_rate.delta_rem]_vars

\* C35 as stated: the root tick count always equals the number of measure() calls
\* that returned Some since the Looper was constructed or last reset; a measure()
\* made while Asleep succeeds regardless of the root rate's duration and delta_rem;
\* measure() never changes the root rate's first_tick, duration or delta_rem.
C35_RootTicksCountMeasures ==
    /\ [](looper.root_rate.ticks = counted.measures)
    /\ MeasureNotGated

\* C35 amended: the root tick count equals that number as long as the host has not
\* written the root rate through mut_root_rate() since the Looper was constructed
\* or last reset; the rest as stated.
C35_RootTicksUnlessWritten ==
    /\ [](~counted.written => looper.root_rate.ticks = counted.measures)
    /\ MeasureNotGated

\* a measure() succeeded on a root rate that was not due, with a duration and a
\* lag the host gave it, and is the one measure among the root ticks
C35_Witness ==
    /\ call.op = "measure"
    /\ call.ret # None
    /\ looper.root_rate.delta_rem > 0
    /\ DurGT(looper.root_rate.duration,
             DurAdd(call.ret[1][2], DurationNew0(looper.root_rate.delta_rem)))
    /\ counted.measures = 1
    /\ looper.root_rate.ticks > 1

-----------------------------------------------------------------------------
(* A RateStats driven directly by its owner *)

\* beyond the samples it starts with, a RateStats is pushed no more than this many
MaxPushes == 1

\* the sample of i nanoseconds
Nth(i) == [hi |-> 0, s |-> 0, ns |-> i]

\* the ring after add_ns(1), add_ns(2), ... add_ns(n) on a new RateStats
Pushed(n) == [i \in 1 .. n |-> Nth(i)]

\* the numbers of samples a RateStats starts with: none, one short of the smallest
\* window, the capacity of the ring
StartLens == {0, 15, RingCap}

\* the samples the owner passes to add_ns: two seconds, and u64::MAX, what a delta
\* of -1 ns becomes under `as u64`
SampleSet == {[hi |-> 0, s |-> 2, ns |-> 0], AsU64(Dur(-1, G - 1))}

\* the durations the owner passes to add: negative, positive
AddSet == {Dur(-1, G \div 2), Half}

\* the tick counts the owner passes to update
TickCounts == {0, 15, 16, 128, 1024}

\* a call that panicked has ended the program
Running == call.ret # Some("panic")

StatsInit ==
    /\ \E n \in StartLens : stats = [RateStats_new EXCEPT !.avg_ring = Pushed(n)]
    /\ pushes = 0
    /\ clock = ZERO
    /\ rate = RateNewAt(ZERO, ZERO, ZERO)
    /\ sched = "regular"
    /\ looper = LooperNewAt(ZERO, ZERO)
    /\ call = Call("new", None, None)
    /\ trail = <<>>
    /\ poll = Unpolled
    /\ counted = Counted(0, FALSE)

StatsAddNs ==
    /\ Running
    /\ pushes < MaxPushes
    /\ \E nanoseconds \in SampleSet :
         /\ stats' = RateStats_add_ns(stats, nanoseconds)
         /\ call' = Call("add_ns", nanoseconds, None)
    /\ pushes' = pushes + 1
    /\ UNCHANGED <<clock, rate, sched, looper, trail, poll, counted>>

StatsAdd ==
    /\ Running
    /\ pushes < MaxPushes
    /\ \E duration \in AddSet :
         /\ stats' = RateStats_add(stats, duration)
         /\ call' = Call("add", duration, None)
    /\ pushes' = pushes + 1
    /\ UNCHANGED <<clock, rate, sched, looper, trail, poll, counted>>

\* update returns, or panics where the build checks overflow and a sum overflows
StatsUpdate ==
    /\ Running
    /\ \E tick_count \in TickCounts :
         \/ /\ stats' = RateStats_update(stats, tick_count)
            /\ call' = Call("update", tick_count, None)
         \/ /\ update_overflows(stats, tick_count)
            /\ stats' = stats
            /\ call' = Call("update", tick_count, Some("panic"))
    /\ UNCHANGED <<clock, rate, sched, looper, pushes, trail, poll, counted>>

StatsReset ==
    /\ Running
    /\ stats' = RateStats_reset(stats)
    /\ call' = Call("reset", None, None)
    /\ UNCHANGED <<clock, rate, sched, looper, pushes, trail, poll, counted>>

StatsNext == StatsAddNs \/ StatsAdd \/ StatsUpdate \/ StatsReset

SpecStats == StatsInit /\ [][StatsNext]_vars

-----------------------------------------------------------------------------
(* Properties of RateStats, checked under SpecStats. An average is compared as its  *)
(* accumulator: avg_N equals a mean exactly when the accumulator equals the sum.    *)

\* the sum and the maximum of the samples at the places lo .. hi of a ring
RECURSIVE Sum(_, _, _)
Sum(ring, lo, hi) ==
    IF lo > hi THEN U64Zero
    ELSE IF lo = hi THEN ring[lo]
    ELSE LET m == (lo + hi) \div 2 IN U64Add(Sum(ring, lo, m), Sum(ring, m + 1, hi))

RECURSIVE Highest(_, _, _)
Highest(ring, lo, hi) ==
    IF lo > hi THEN U64Zero
    ELSE IF lo = hi THEN ring[lo]
    ELSE LET m == (lo + hi) \div 2 IN U64Max(Highest(ring, lo, m), Highest(ring, m + 1, hi))

\* the place of the oldest of the n most recently pushed samples
Oldest(ring, n) == IF Len(ring) > n THEN Len(ring) - n + 1 ELSE 1

\* the sum and the maximum of the n most recently pushed samples, or of all the
\* samples of a ring that holds fewer
WindowSum(ring, n) == Sum(ring, Oldest(ring, n), Len(ring))

WindowMax(ring, n) == Highest(ring, Oldest(ring, n), Len(ring))

\* C16: whenever update(t) is called with t a multiple of 16 on a ring of 16 samples
\* or more (a new RateStats after 16 pushes included), avg_16 and max_ns_16 are the
\* mean and the maximum of exactly the 16 most recently pushed samples.
C16_Window16 ==
    [][(/\ call'.op = "update"
        /\ call'.arg % 16 = 0
        /\ Len(stats.avg_ring) >= 16) =>
        /\ call'.ret = None
        /\ stats'.avg_16 = WindowSum(stats.avg_ring, 16)
        /\ stats'.max_ns_16 = WindowMax(stats.avg_ring, 16)]_vars

\* the newest sample of a ring, 0 for an empty one
Newest(ring) == IF Len(ring) = 0 THEN U64Zero ELSE ring[Len(ring)]

\* C17: update(t) recomputes the average and the maximum of the window N, for N in
\* {16, 128, 1024}, if and only if t mod N = 0 (t = 0 included), and leaves the
\* fields of every other window and the ring untouched; update(t) with t not a
\* multiple of 16 changes no field at all. A recomputed maximum has looked at the
\* newest sample and holds a sample of the ring or 0.
C17_UpdateFrame ==
    [][(call'.op = "update" /\ call'.ret = None) =>
        LET t == call'.arg
            ring == stats.avg_ring
            Seen(m) == /\ U64Max(m, Newest(ring)) = m
                       /\ m = U64Zero \/ \E i \in 1 .. Len(ring) : ring[i] = m
        IN /\ stats'.avg_ring = ring
           /\ IF t % 16 = 0 THEN Seen(stats'.max_ns_16)
              ELSE stats' = stats
           /\ IF t % 128 = 0 THEN Seen(stats'.max_ns_128)
              ELSE /\ stats'.avg_128 = stats.avg_128
                   /\ stats'.max_ns_128 = stats.max_ns_128
           /\ IF t % 1024 = 0 THEN Seen(stats'.max_ns_1024)
              ELSE /\ stats'.avg_1024 = stats.avg_1024
                   /\ stats'.max_ns_1024 = stats.max_ns_1024]_vars

\* update(16) recomputed the 16 window and left the others, which update(128) had
\* filled, as they were
C17_Witness ==
    /\ call.op = "update"
    /\ call.arg = 16
    /\ call.ret = None
    /\ stats.max_ns_16 = Newest(stats.avg_ring)
    /\ stats.max_ns_128 # U64Zero
    /\ stats.max_ns_128 # stats.max_ns_16
    /\ stats.max_ns_1024 = U64Zero

\* C18: for N in {128, 1024}, whenever update(t) is called with t a multiple of N,
\* avg_N equals the sum of exactly the N most recently pushed samples divided by N
\* and max_ns_N equals their maximum; when the ring holds fewer than N samples the
\* missing ones count as 0 in both, and the divisor is still N.
C18_Windows128And1024 ==
    [][call'.op = "update" =>
        /\ call'.arg % 128 = 0 =>
            /\ call'.ret = None
            /\ stats'.avg_128 = WindowSum(stats.avg_ring, 128)
            /\ stats'.max_ns_128 = WindowMax(stats.avg_ring, 128)
        /\ call'.arg % 1024 = 0 =>
            /\ call'.ret = None
            /\ stats'.avg_1024 = WindowSum(stats.avg_ring, 1024)
            /\ stats'.max_ns_1024 = WindowMax(stats.avg_ring, 1024)]_vars

\* The part of C18 that the code keeps: the same, for a window whose samples sum to
\* less than 2^64, and in any case for the maximum once update has returned.
C18_WindowsWithinU64 ==
    [][call'.op = "update" =>
        /\ (call'.arg % 128 = 0 /\ call'.ret = None) =>
            /\ ~U64Overflows(WindowSum(stats.avg_ring, 128)) =>
                    stats'.avg_128 = WindowSum(stats.avg_ring, 128)
            /\ stats'.max_ns_128 = WindowMax(stats.avg_ring, 128)
        /\ (call'.arg % 1024 = 0 /\ call'.ret = None) =>
            /\ ~U64Overflows(WindowSum(stats.avg_ring, 1024)) =>
                    stats'.avg_1024 = WindowSum(stats.avg_ring, 1024)
            /\ stats'.max_ns_1024 = WindowMax(stats.avg_ring, 1024)
        /\ call'.ret # None =>
            \/ U64Overflows(WindowSum(stats.avg_ring, 128))
            \/ U64Overflows(WindowSum(stats.avg_ring, 1024))]_vars

\* update recomputed the 1024 window over a full ring that has evicted a sample
C18_WithinU64Witness ==
    /\ call.op = "update"
    /\ call.arg = 1024
    /\ call.ret = None
    /\ Len(stats.avg_ring) = RingCap
    /\ stats.avg_ring[1] = Nth(2)
    /\ stats.avg_1024 = WindowSum(stats.avg_ring, 1024)
    /\ stats.avg_128 # stats.avg_1024
    /\ ~U64Overflows(WindowSum(stats.avg_ring, 1024))

\* the window fields of a RateStats
Windows(st) ==
    <<st.avg_16, st.avg_128, st.avg_1024, st.max_ns_16, st.max_ns_128, st.max_ns_1024>>

\* C19: the ring never holds more than 1024 samples; add and add_ns each append
\* exactly one sample as the newest, and when the ring is full the oldest sample, and
\* only it, is evicted, so the ring keeps the most recent samples in push order; add
\* and add_ns never change an average or a maximum, and add records a negative
\* duration as 0.
C19_RingOfMostRecent ==
    /\ [](Len(stats.avg_ring) <= RingCap)
    /\ [][call'.op \in {"add", "add_ns"} =>
            LET old == stats.avg_ring
                new == stats'.avg_ring
                gone == IF Len(old) = RingCap THEN 1 ELSE 0
                v == IF call'.op = "add_ns" THEN call'.arg
                     ELSE IF DurGT(ZERO, call'.arg) THEN U64Zero
                     ELSE [hi |-> 0, s |-> call'.arg.s, ns |-> call'.arg.ns]
            IN /\ Len(new) = Len(old) + 1 - gone
               /\ new[Len(new)] = v
               /\ \A i \in 1 .. Len(new) - 1 : new[i] = old[i + gone]
               /\ Windows(stats') = Windows(stats)]_vars

\* add of a negative duration pushed 0 into a full ring, which evicted its oldest
\* sample and kept fields that an update had filled
C19_Witness ==
    /\ call.op = "add"
    /\ DurGT(ZERO, call.arg)
    /\ Len(stats.avg_ring) = RingCap
    /\ stats.avg_ring[1] = Nth(2)
    /\ stats.avg_ring[RingCap] = U64Zero
    /\ stats.max_ns_1024 = Nth(RingCap)

\* C20: RateStats::reset() sets avg_16, avg_128 and avg_1024 to 0 and max_ns_128 and
\* max_ns_1024 to 0, and leaves max_ns_16 and the contents of the ring exactly as
\* they were.
C20_StatsReset ==
    [][call'.op = "reset" =>
        /\ stats'.avg_16 = U64Zero
        /\ stats'.avg_128 = U64Zero
        /\ stats'.avg_1024 = U64Zero
        /\ stats'.max_ns_128 = U64Zero
        /\ stats'.max_ns_1024 = U64Zero
        /\ stats'.max_ns_16 = stats.max_ns_16
        /\ stats'.avg_ring = stats.avg_ring]_vars

\* a reset left a maximum of the 16 window that an update had filled, over a ring
\* that holds samples
C20_Witness ==
    /\ call.op = "reset"
    /\ stats.max_ns_16 # U64Zero
    /\ stats.avg_16 = U64Zero
    /\ stats.max_ns_128 = U64Zero
    /\ Len(stats.avg_ring) >= 16

-----------------------------------------------------------------------------
(* The table of named rates of a Looper *)

NameA == <<"a">>

\* a name longer than a u128 holds, and one with a character outside [A-Za-z0-9_]
TooLong == Append(Name21, "x")

BadChar == <<"a", "-">>

\* the names the host passes: two valid ones, the second of exactly 21 characters,
\* and two that fail to encode
NameSet == {NameA, Name21, TooLong, BadChar}

\* the count of ticks of a Rate that its owner drove before handing it over
PreTicks == 15

\* Rate::new(ZERO) at instant 0, then do_tick(0.5 s) PreTicks times: the first call
\* leaves a lag of half a second, and every later one has delta = 0 and fires on it
Lagging ==
    [duration |-> ZERO, first_tick |-> ZERO, last_tick |-> Half,
     ticks |-> PreTicks, delta_rem |-> G \div 2]

\* the calls of add_rate the host makes, <<name, rate, with_stats>>
TableAddInputs ==
    {<<NameA, r, s>> : r \in {RateNewAt(ZERO, ZERO, ZERO), RateNewAt(Half, ZERO, ZERO), Lagging},
                       s \in BOOLEAN}
        \cup {<<Name21, RateNewAt(Dur(1, 0), ZERO, ZERO), s>> : s \in BOOLEAN}
        \cup {<<TooLong, Lagging, TRUE>>, <<BadChar, RateNewAt(Half, ZERO, ZERO), TRUE>>}

\* the instants of the host's tick checks
TableInstants == {ZERO, Half, Dur(1, 0)}

\* the tick checks the host makes: <<now, name>>
TableTickInputs == {<<now, name>> : now \in TableInstants, name \in NameSet}

\* the ticks a rate has made since its owner handed it over
TicksThrough(r) == IF r.ticks >= PreTicks THEN r.ticks - PreTicks ELSE r.ticks

\* the named rate and its ring have room for one more tick
TableRoom(name) ==
    /\ name \in DOMAIN looper.rates => TicksThrough(looper.rates[name]) < MaxNamedTicks
    /\ name \in DOMAIN looper.stats => Len(looper.stats[name].avg_ring) < MaxSamples

TableInit ==
    /\ looper = LooperNewAt(ZERO, ZERO)
    /\ clock = ZERO
    /\ rate = RateNewAt(ZERO, ZERO, ZERO)
    /\ sched = "regular"
    /\ stats = RateStats_new
    /\ pushes = 0
    /\ call = LCall("new", None, None, 0)
    /\ trail = <<>>
    /\ poll = Unpolled
    /\ counted = Counted(0, FALSE)

TableAddRate ==
    /\ \E in \in TableAddInputs :
         LET res == Looper_add_rate(looper, in[1], in[2], in[3]) IN
         /\ looper' = res.looper
         /\ call' = LCall("add_rate", in, res.ret, 0)
    /\ UNCHANGED <<clock, rate, sched, trail, stats, pushes, poll, counted>>

TableDoTick ==
    /\ \E in \in TableTickInputs :
         LET res == Looper_do_tick(looper, in[1], in[2]) IN
         /\ TableRoom(in[2])
         /\ looper' = res.looper
         /\ call' = LCall("do_tick", in, res.ret, 0)
    /\ UNCHANGED <<clock, rate, sched, trail, stats, pushes, poll, counted>>

TableDoTickFast ==
    /\ \E in \in TableTickInputs :
         LET res == Looper_do_tick_fast(looper, in[1], in[2]) IN
         /\ TableRoom(in[2])
         /\ looper' = res.looper
         /\ call' = LCall("do_tick_fast", in, res.ret, 0)
    /\ UNCHANGED <<clock, rate, sched, trail, stats, pushes, poll, counted>>

TableRefRate ==
    /\ \E name \in NameSet :
         call' = LCall("ref_rate", name, Looper_ref_rate(looper, name), 0)
    /\ UNCHANGED <<clock, rate, sched, looper, trail, stats, pushes, poll, counted>>

TableMutRate ==
    /\ \E name \in NameSet :
         call' = LCall("mut_rate", name, Looper_mut_rate(looper, name), 0)
    /\ UNCHANGED <<clock, rate, sched, looper, trail, stats, pushes, poll, counted>>

TableFastestRateDuration ==
    /\ call' = LCall("fastest_rate_duration", None, Looper_fastest_rate_duration(looper), 0)
    /\ UNCHANGED <<clock, rate, sched, looper, trail, stats, pushes, poll, counted>>

TableNext ==
    \/ TableAddRate
    \/ TableDoTick
    \/ TableDoTickFast
    \/ TableRefRate
    \/ TableMutRate
    \/ TableFastestRateDuration

SpecTable == TableInit /\ [][TableNext]_vars

-----------------------------------------------------------------------------
(* Properties of the table of named rates, checked under SpecTable *)

\* a name of at most 21 characters, all of them in [A-Za-z0-9_]
ValidName(name) ==
    /\ Len(name) <= MaxNameLen
    /\ \A i \in 1 .. Len(name) : name[i] \in ValidChars

\* C22: add_rate with a name that fails encoding (longer than 21 characters or
\* containing a character outside [A-Za-z0-9_]) returns an encoding error and
\* leaves the Looper unchanged: neither the rates table nor the stats table gains
\* or replaces an entry, even when with_stats is true; a valid name of exactly 21
\* characters is accepted.
C22_AddRateInvalidName ==
    [][call'.op = "add_rate" =>
        LET name == call'.arg[1] IN
        /\ ~ValidName(name) =>
            /\ call'.ret = Err("RateName")
            /\ looper' = looper
        /\ (ValidName(name) /\ Len(name) = MaxNameLen) =>
            /\ call'.ret.ok
            /\ name \in DOMAIN looper'.rates]_vars

\* add_rate with a name of 22 characters and with_stats = true returned the error
\* on a Looper that holds a rate and a stats entry under a name of 21 characters
C22_Witness ==
    /\ call.op = "add_rate"
    /\ call.arg[1] = TooLong
    /\ call.arg[3]
    /\ ~call.ret.ok
    /\ Name21 \in DOMAIN looper.rates
    /\ Name21 \in DOMAIN looper.stats
    /\ TooLong \notin DOMAIN looper.rates

\* C23: add_rate(name, rate, with_stats) with a valid name returns Ok(None) when no
\* rate was registered under name and Ok(Some(previous rate)) when one was;
\* afterwards ref_rate(name) returns a rate equal to the one passed in, every other
\* named rate is unchanged, and if with_stats is true the stats entry for name is a
\* fresh empty RateStats.
C23_AddRateValidName ==
    [][(call'.op = "add_rate" /\ ValidName(call'.arg[1])) =>
        LET name == call'.arg[1]
            r == call'.arg[2]
            with_stats == call'.arg[3]
        IN /\ call'.ret = Ok(IF name \in DOMAIN looper.rates
                             THEN Some(looper.rates[name]) ELSE None)
           /\ Looper_ref_rate(looper', name) = Some(r)
           /\ \A k \in DOMAIN looper.rates \ {name} :
                /\ k \in DOMAIN looper'.rates
                /\ looper'.rates[k] = looper.rates[k]
           /\ DOMAIN looper'.rates = DOMAIN looper.rates \cup {name}
           /\ with_stats =>
                /\ name \in DOMAIN looper'.stats
                /\ looper'.stats[name] = RateStats_new]_vars

\* add_rate with with_stats = true has replaced a rate that had ticked, next to
\* another registered rate that had ticked too
C23_Witness ==
    /\ call.op = "add_rate"
    /\ call.arg[1] = NameA
    /\ call.arg[2] = Lagging
    /\ call.arg[3]
    /\ call.ret.ok
    /\ call.ret.v # None
    /\ call.ret.v[1].ticks = 1
    /\ Name21 \in DOMAIN looper.rates
    /\ looper.rates[Name21].ticks = 1

\* the name a lookup or a tick check was called with
CalledName == IF call'.op \in {"ref_rate", "mut_rate"} THEN call'.arg ELSE call'.arg[2]

\* C24: for a name that is invalid or not registered, ref_rate and mut_rate return
\* None and do_tick and do_tick_fast return None, and in all these cases no part of
\* the Looper state changes.
C24_UnknownName ==
    [][(/\ call'.op \in {"ref_rate", "mut_rate", "do_tick", "do_tick_fast"}
        /\ (~ValidName(CalledName) \/ CalledName \notin DOMAIN looper.rates)) =>
            /\ call'.ret = None
            /\ looper' = looper]_vars

\* a valid name that is not registered was looked up on a Looper that holds
\* another rate
C24_Witness ==
    /\ call.op \in {"ref_rate", "do_tick"}
    /\ call.ret = None
    /\ (IF call.op = "ref_rate" THEN call.arg ELSE call.arg[2]) = Name21
    /\ Name21 \notin DOMAIN looper.rates
    /\ NameA \in DOMAIN looper.rates
    /\ NameA \in DOMAIN looper.stats

\* what the Rate registered under name returns for now, by the method of the call
NamedTick(l, op, now, name) ==
    IF op = "do_tick" THEN Rate_do_tick(l.rates[name], now)
    ELSE Rate_do_tick_fast(l.rates[name], now)

\* the stats table after a tick of the rate r under name that pushed sample
Routed(l, name, r, sample) ==
    IF name \in DOMAIN l.stats
    THEN [l.stats EXCEPT ![name] = RateStats_update(RateStats_add_ns(@, sample), r.ticks)]
    ELSE l.stats

\* the Looper tick check of a registered name returns what the Rate's own method
\* returns and leaves the Rate as that method does; when that is Some(delta) and a
\* stats entry exists, one sample, Sample(delta), is pushed into that entry and its
\* update is called with the tick count after the increment; otherwise the stats
\* table is as before
RoutesSample(Sample(_)) ==
    (/\ call'.op \in {"do_tick", "do_tick_fast"}
     /\ ValidName(call'.arg[2])
     /\ call'.arg[2] \in DOMAIN looper.rates) =>
        LET now == call'.arg[1]
            name == call'.arg[2]
            res == NamedTick(looper, call'.op, now, name)
        IN /\ call'.ret = res.ret
           /\ looper'.rates = [looper.rates EXCEPT ![name] = res.rate]
           /\ looper'.stats = IF res.ret # None
                              THEN Routed(looper, name, res.rate, Sample(res.ret[1]))
                              ELSE looper.stats

\* the count of nanoseconds of a duration
Nanoseconds(d) == [hi |-> 0, s |-> d.s, ns |-> d.ns]

\* C25: Looper::do_tick(now, name) and Looper::do_tick_fast(now, name) return
\* exactly what the named Rate's do_tick / do_tick_fast returns for now; when that
\* is Some(delta) and a stats entry exists for name, exactly one sample (delta in
\* nanoseconds) is pushed into that entry and its update is called with the rate's
\* tick count after the increment; when the result is None, or no stats entry
\* exists, no stats entry is modified.
C25_TickRoutesDelta == [][RoutesSample(Nanoseconds)]_vars

\* What holds of C25 with the sample as the code stores it: the same, the sample
\* being delta.whole_nanoseconds() as u64, which is 2^64 - |delta| for a negative
\* delta.
C25_TickRoutesCastDelta == [][RoutesSample(AsU64)]_vars

\* the sixteenth tick of a rate fired on a negative delta and its sample reached
\* the stats entry, where update recomputed the 16 window
C25_NegativeDeltaRouted ==
    /\ call.op = "do_tick"
    /\ call.ret # None
    /\ DurGT(ZERO, call.ret[1])
    /\ call.arg[2] \in DOMAIN looper.stats
    /\ looper.rates[call.arg[2]].ticks = 16
    /\ looper.stats[call.arg[2]].max_ns_16 = AsU64(call.ret[1])

\* C26: fastest_rate_duration() returns None if and only if no named rate is
\* registered; otherwise it returns the minimum duration over all registered named
\* rates (the root rate is not considered), and it changes no state.
C26_FastestRateDuration ==
    [][call'.op = "fastest_rate_duration" =>
        /\ looper' = looper
        /\ call'.ret = None <=> DOMAIN looper.rates = {}
        /\ call'.ret # None =>
            /\ \E k \in DOMAIN looper.rates : call'.ret = Some(looper.rates[k].duration)
            /\ \A k \in DOMAIN looper.rates :
                DurGE(looper.rates[k].duration, call'.ret[1])]_vars

\* the fastest of two registered rates is slower than the root rate
C26_Witness ==
    /\ call.op = "fastest_rate_duration"
    /\ call.ret = Some(Half)
    /\ DOMAIN looper.rates = {NameA, Name21}
    /\ looper.rates[Name21].duration = Dur(1, 0)
    /\ looper.root_rate.duration = ZERO

\* the Looper tick check of name, by the method op
TickCheck(l, op, now, name) ==
    IF op = "do_tick" THEN Looper_do_tick(l, now, name) ELSE Looper_do_tick_fast(l, now, name)

\* checking a at nowA by opA and then b at nowB by opB gives the results and the
\* final state of checking b first and then a
Commutes(l, opA, nowA, a, opB, nowB, b) ==
    LET a1 == TickCheck(l, opA, nowA, a)
        ab == TickCheck(a1.looper, opB, nowB, b)
        b1 == TickCheck(l, opB, nowB, b)
        ba == TickCheck(b1.looper, opA, nowA, a)
    IN /\ ab.looper = ba.looper
       /\ a1.ret = ba.ret
       /\ b1.ret = ab.ret

\* C27: tick checks are independent per named rate: do_tick(now, A) or
\* do_tick_fast(now, A) changes at most rate A and stats A and leaves every other
\* named rate and stats entry, the root rate and the root stats unchanged;
\* consequently, for two distinct names A and B, checking A then B with the same
\* instants yields the same results and the same final state as checking B then A.
C27_TickChecksIndependent ==
    /\ [][call'.op \in {"do_tick", "do_tick_fast"} =>
            /\ looper'.status = looper.status
            /\ looper'.root_rate = looper.root_rate
            /\ looper'.root_stats = looper.root_stats
            /\ DOMAIN looper'.rates = DOMAIN looper.rates
            /\ DOMAIN looper'.stats = DOMAIN looper.stats
            /\ \A k \in DOMAIN looper.rates \ {call'.arg[2]} :
                looper'.rates[k] = looper.rates[k]
            /\ \A k \in DOMAIN looper.stats \ {call'.arg[2]} :
                looper'.stats[k] = looper.stats[k]]_vars
    /\ [](\A opA, opB \in {"do_tick", "do_tick_fast"} :
            \A nowA, nowB \in TableInstants :
                Commutes(looper, opA, nowA, NameA, opB, nowB, Name21))

\* a tick of one rate has fired and reached its stats entry on a Looper where
\* the other rate has ticked into its own stats entry
C27_Witness ==
    /\ call.op \in {"do_tick", "do_tick_fast"}
    /\ call.ret # None
    /\ call.arg[2] = Name21
    /\ Name21 \in DOMAIN looper.stats
    /\ Len(looper.stats[Name21].avg_ring) = 1
    /\ NameA \in DOMAIN looper.rates
    /\ NameA \in DOMAIN looper.stats
    /\ Len(looper.stats[NameA].avg_ring) = 1
    /\ looper.rates[NameA].ticks = 16

\* C33: in every reachable Looper state the keys of the stats table are a subset of
\* the keys of the rates table, and no operation ever removes a key from either
\* table: once add_rate(name, ..) has succeeded, ref_rate(name) returns Some in every
\* later state and fastest_rate_duration() never returns None again.
C33_TablesOnlyGrow ==
    /\ [](DOMAIN looper.stats \subseteq DOMAIN looper.rates)
    /\ [][/\ DOMAIN looper.rates \subseteq DOMAIN looper'.rates
          /\ DOMAIN looper.stats \subseteq DOMAIN looper'.stats
          /\ (call'.op = "add_rate" /\ call'.ret.ok) =>
                call'.arg[1] \in DOMAIN looper'.rates
          /\ (call'.op \in {"ref_rate", "mut_rate"} /\ call'.arg \in DOMAIN looper.rates) =>
                call'.ret # None
          /\ (call'.op = "fastest_rate_duration" /\ DOMAIN looper.rates # {}) =>
                call'.ret # None]_vars

\* ref_rate found a rate that was registered without stats and has ticked since,
\* next to another rate that has a stats entry
C33_Witness ==
    /\ call.op = "ref_rate"
    /\ call.arg = NameA
    /\ call.ret # None
    /\ call.ret[1].ticks = PreTicks + 1
    /\ DOMAIN looper.rates = {NameA, Name21}
    /\ DOMAIN looper.stats = {Name21}

-----------------------------------------------------------------------------
(* A named rate replaced by its host *)

\* the calls of add_rate the host makes on one name, <<name, rate, with_stats>>
ReplaceAddInputs ==
    {<<NameA, r, s>> : r \in {RateNewAt(ZERO, ZERO, ZERO), RateNewAt(Half, ZERO, ZERO)},
                       s \in BOOLEAN}

\* the rate has room for one more tick, and the ring for the tick of a rate after
\* the samples of the rate it replaced
ReplaceRoom ==
    /\ NameA \in DOMAIN looper.rates => looper.rates[NameA].ticks < MaxNamedTicks
    /\ NameA \in DOMAIN looper.stats => Len(looper.stats[NameA].avg_ring) <= MaxSamples

ReplaceAddRate ==
    /\ \E in \in ReplaceAddInputs :
         LET res == Looper_add_rate(looper, in[1], in[2], in[3]) IN
         /\ looper' = res.looper
         /\ call' = LCall("add_rate", in, res.ret, 0)
    /\ UNCHANGED <<clock, rate, sched, trail, stats, pushes, poll, counted>>

ReplaceDoTick ==
    /\ ReplaceRoom
    /\ \E now \in TableInstants :
         LET res == Looper_do_tick(looper, now, NameA) IN
         /\ looper' = res.looper
         /\ call' = LCall("do_tick", <<now, NameA>>, res.ret, 0)
    /\ UNCHANGED <<clock, rate, sched, trail, stats, pushes, poll, counted>>

ReplaceDoTickFast ==
    /\ ReplaceRoom
    /\ \E now \in TableInstants :
         LET res == Looper_do_tick_fast(looper, now, NameA) IN
         /\ looper' = res.looper
         /\ call' = LCall("do_tick_fast", <<now, NameA>>, res.ret, 0)
    /\ UNCHANGED <<clock, rate, sched, trail, stats, pushes, poll, counted>>

ReplaceNext == ReplaceAddRate \/ ReplaceDoTick \/ ReplaceDoTickFast

SpecReplace == TableInit /\ [][ReplaceNext]_vars

\* C34: replacing a named rate with add_rate(name, rate, false) when a stats entry
\* already exists for name keeps that stats entry unchanged (same ring contents and
\* window fields), and subsequent successful ticks of the new rate are appended to
\* it; only add_rate(name, rate, true) discards the previous samples.
C34_ReplaceKeepsStats ==
    [][/\ (call'.op = "add_rate" /\ call'.ret.ok /\ call'.arg[1] \in DOMAIN looper.stats) =>
            LET name == call'.arg[1] IN
            /\ name \in DOMAIN looper'.stats
            /\ looper'.stats[name] =
                 IF call'.arg[3] THEN RateStats_new ELSE looper.stats[name]
       /\ (/\ call'.op \in {"do_tick", "do_tick_fast"}
           /\ call'.ret # None
           /\ call'.arg[2] \in DOMAIN looper.stats) =>
            LET name == call'.arg[2] IN
            /\ looper'.stats[name].avg_ring =
                 push_back(looper.stats[name].avg_ring, AsU64(call'.ret[1]))
            /\ looper'.stats[name] =
                 RateStats_update(RateStats_add_ns(looper.stats[name], AsU64(call'.ret[1])),
                                  looper'.rates[name].ticks)]_vars

\* the first tick of a rate went into a ring behind a sample of the rate it
\* replaced
C34_Witness ==
    /\ call.op \in {"do_tick", "do_tick_fast"}
    /\ call.ret # None
    /\ NameA \in DOMAIN looper.stats
    /\ looper.rates[NameA].ticks = 1
    /\ looper.rates[NameA].duration = Half
    /\ Len(looper.stats[NameA].avg_ring) = 2
    /\ looper.stats[NameA].avg_ring[1] = U64Zero
    /\ looper.stats[NameA].avg_ring[2] # U64Zero

-----------------------------------------------------------------------------
(* The tick projections of a Rate, queried by its owner *)

\* the tick index a * 2^52 + s
Index(a, s) == [a |-> a, s |-> s]

\* the tick indices the owner asks for: the first ones, those around 2^53, where
\* an f64 stops holding every integer, 2^63 and u64::MAX
TickIndexSet ==
    {Index(0, k) : k \in 0 .. MaxTicks}
        \cup {Index(2, k) : k \in -1 .. 3}
        \cup {Index(2048, 0), Index(4096, -1)}

\* the instants tick_elapsed is asked about
ElapsedInstants == {ZERO, Dur(1, 0), Dur(MaxSec, 0)}

\* a Rate built one second or more after the origin of the clock
ProjInit ==
    /\ \E d \in DurationSet :
         \E t2 \in Nows(Dur(1, 0)) :
            /\ rate = RateNewAt(d, Dur(1, 0), t2)
            /\ clock = t2
            /\ call = Call("new", d, None)
    /\ sched = "regular"
    /\ looper = LooperNewAt(ZERO, ZERO)
    /\ stats = RateStats_new
    /\ pushes = 0
    /\ trail = <<>>
    /\ poll = Unpolled
    /\ counted = Counted(0, FALSE)

\* no call has panicked
ProjRunning == IF call.op = "new" THEN TRUE ELSE ~call.ret.panic

ProjDurationTicks ==
    /\ ProjRunning
    /\ \E n \in TickIndexSet :
         \E out \in Rate_duration_ticks(rate, n) :
            call' = Call("duration_ticks", n, out)
    /\ UNCHANGED <<clock, rate, sched, looper, trail, stats, pushes, poll, counted>>

ProjInstantTick ==
    /\ ProjRunning
    /\ \E n \in TickIndexSet :
         \E out \in Rate_instant_tick(rate, n) :
            call' = Call("instant_tick", n, out)
    /\ UNCHANGED <<clock, rate, sched, looper, trail, stats, pushes, poll, counted>>

ProjInstantTickChecked ==
    /\ ProjRunning
    /\ \E n \in TickIndexSet :
         \E out \in Rate_instant_tick_checked(rate, n) :
            call' = Call("instant_tick_checked", n, out)
    /\ UNCHANGED <<clock, rate, sched, looper, trail, stats, pushes, poll, counted>>

ProjTickElapsed ==
    /\ ProjRunning
    /\ \E n \in TickIndexSet, instant \in ElapsedInstants :
         \E out \in Rate_tick_elapsed(rate, n, instant) :
            call' = Call("tick_elapsed", <<n, instant>>, out)
    /\ UNCHANGED <<clock, rate, sched, looper, trail, stats, pushes, poll, counted>>

ProjNext ==
    \/ ProjDurationTicks
    \/ ProjInstantTick
    \/ ProjInstantTickChecked
    \/ ProjTickElapsed

SpecProj == ProjInit /\ [][ProjNext]_vars

\* the tick index of the call made
CalledIndex == IF call'.op = "tick_elapsed" THEN call'.arg[1] ELSE call'.arg

\* duration * n, as a number
ExactTimes(duration, n) == F64Times(duration, n)

\* first_tick + duration * n, as a number
ExactInstant(r, n) == WAdd(WideOf(r.first_tick), ExactTimes(r.duration, n))

\* duration * n is a Duration and first_tick + duration * n is an Instant
Representable(r, n) ==
    /\ ~OutOfI64(ExactTimes(r.duration, n))
    /\ ~OutOfI64(ExactInstant(r, n))

\* the projections of the index n are as C28 says
ProjectsExactly(n) ==
    /\ call'.op = "instant_tick_checked" =>
        call'.ret = IF Representable(rate, n)
                    THEN Returned(ExactInstant(rate, n)) ELSE ReturnedNone
    /\ call'.op = "instant_tick" =>
        call'.ret = IF Representable(rate, n)
                    THEN Returned(ExactInstant(rate, n)) ELSE Panicked
    /\ call'.op = "tick_elapsed" =>
        call'.ret = IF Representable(rate, n)
                    THEN Returned(WSub(WideOf(call'.arg[2]), ExactInstant(rate, n)))
                    ELSE Panicked

\* C28: instant_tick_checked(n) returns Some(first_tick + duration * n) whenever
\* that instant is representable, and whenever duration * n or first_tick +
\* duration * n is not representable it returns None without panicking, while
\* instant_tick(n) panics in exactly those cases and otherwise returns the same
\* instant; tick_elapsed(n, instant) = instant - instant_tick(n), and none of these
\* queries changes the Rate.
C28_TickProjection ==
    [][call'.op \in {"instant_tick_checked", "instant_tick", "tick_elapsed"} =>
        /\ rate' = rate
        /\ ProjectsExactly(CalledIndex)]_vars

\* What holds of C28: for a tick index that an f64 holds exactly, with duration * n
\* inside the range of a Duration, the three projections are as C28 says; and no
\* query changes the Rate.
C28_ProjectionOfExactIndex ==
    [][call'.op \in {"instant_tick_checked", "instant_tick", "tick_elapsed"} =>
        /\ rate' = rate
        /\ (/\ U64AsF64(CalledIndex) = CalledIndex
            /\ ~OutOfI64(ExactTimes(rate.duration, CalledIndex))) =>
                ProjectsExactly(CalledIndex)]_vars

\* instant_tick_checked(2^53 + 1) on a Rate of one second per tick returned the
\* instant of the tick 2^53
C28_RoundedIndexProjected ==
    /\ call.op = "instant_tick_checked"
    /\ call.arg = Index(2, 1)
    /\ rate.duration = Dur(1, 0)
    /\ call.ret = Returned(ExactInstant(rate, Index(2, 0)))

-----------------------------------------------------------------------------
(* The named rates and the loop status, checked under Spec *)

\* the Looper with the other status
Flip(l) == [l EXCEPT !.status = IF @ = "Active" THEN "Asleep" ELSE "Active"]

\* the call op(arg) of the host made on the Looper l; add_rate is passed the Rate
\* the host built at the instant now
NamedCall(l, op, arg, now) ==
    IF op = "do_tick" THEN Looper_do_tick(l, arg[1], arg[2])
    ELSE IF op = "do_tick_fast" THEN Looper_do_tick_fast(l, arg[1], arg[2])
    ELSE Looper_add_rate(l, arg[1], RateNewAt(arg[2], now, now), arg[3])

\* C36: named tick checks are not guarded by the loop status: Looper::do_tick,
\* do_tick_fast, add_rate, ref_rate and fastest_rate_duration return the same result
\* and have the same effect on named rates whether the status is Active or Asleep,
\* and none of them ever changes the status, the root rate or the root stats.
C36_NamedOpsIgnoreStatus ==
    /\ [][call'.op \in {"do_tick", "do_tick_fast", "add_rate"} =>
            LET other == NamedCall(Flip(looper), call'.op, call'.arg, clock) IN
            /\ call'.ret = other.ret
            /\ looper'.rates = other.looper.rates
            /\ looper'.stats = other.looper.stats
            /\ other.looper.status = Flip(looper).status
            /\ looper'.status = looper.status
            /\ looper'.root_rate = looper.root_rate
            /\ looper'.root_stats = looper.root_stats]_vars
    /\ [](\A name \in NameSet :
            Looper_ref_rate(Flip(looper), name) = Looper_ref_rate(looper, name))
    /\ [](Looper_fastest_rate_duration(Flip(looper)) = Looper_fastest_rate_duration(looper))

\* a tick check fired and reached its stats entry while the loop was Asleep, after
\* a measure
C36_Witness ==
    /\ call.op \in {"do_tick", "do_tick_fast"}
    /\ call.ret # None
    /\ looper.status = "Asleep"
    /\ looper.root_rate.ticks >= 1
    /\ call.arg[2] \in DOMAIN looper.stats
    /\ Len(looper.stats[call.arg[2]].avg_ring) = 1
    /\ Looper_fastest_rate_duration(looper) = Some(Half)

-----------------------------------------------------------------------------
(* The loop state machine under a host that keeps calling sleep and measure *)

\* the root cadence alone, a few measures long
LiveNext ==
    \/ Measure(LoopInstants, MaxMeasures)
    \/ Sleep(LoopInstants)
    \/ Reset(LoopInstants)
    \/ ResetRoot(LoopInstants)

\* a measure() that can be made is eventually made, and so is a sleep()
SpecLive ==
    /\ LooperInit
    /\ [][LiveNext]_vars
    /\ WF_vars(Measure(LoopInstants, MaxMeasures))
    /\ WF_vars(Sleep(LoopInstants))

\* the root ring has room for the sample of one more measure
LiveRoom == Len(looper.root_stats.avg_ring) < MaxMeasures

\* of a measure() and a sleep(d) made now, exactly one takes effect
ExactlyOneTakesEffect ==
    \A now \in LoopInstants, d \in SleepSet :
        (Looper_measure(looper, now).ret # None) # (Looper_sleep(looper, d).looper # looper)

\* C37: the loop state machine never deadlocks: in every reachable state exactly one
\* of measure() and sleep() takes effect (sleep when Active, measure when Asleep), so
\* under a host that keeps calling sleep and measure the status is Asleep again and
\* again and Active again and again, and the root tick count passes every value
\* unless reset is called; the measures are followed as long as the root ring has
\* room.
C37_LoopNeverStalls ==
    /\ []ExactlyOneTakesEffect
    /\ [](looper.status = "Active" <=> Looper_sleep(looper, ZERO).looper # looper)
    /\ []<>(looper.status = "Asleep")
    /\ []<>(looper.status = "Active" \/ ~LiveRoom)
    /\ \A n \in 0 .. (MaxMeasures - 1) :
        (looper.root_rate.ticks = n /\ LiveRoom) ~>
            (looper.root_rate.ticks > n \/ call.op \in {"reset", "reset_root"})

\* the loop has alternated up to the last measure the root ring has room for
C37_Witness ==
    /\ call.op = "measure"
    /\ call.ret # None
    /\ looper.status = "Active"
    /\ looper.root_rate.ticks = MaxMeasures
    /\ trail = <<"M", "S", "M">>

-----------------------------------------------------------------------------
(* The samples the Looper stores, checked under SpecTable, Spec and SpecLoop *)

\* the sample a ring received last
StoredLast(st) == st.avg_ring[Len(st.avg_ring)]

\* the ring of after is the ring of before with one more sample: the count of
\* nanoseconds of delta, which is not negative and is what RateStats::add stores
\* for delta
StoresDeltaOf(before, after, delta) ==
    /\ after.avg_ring = RateStats_add(before, delta).avg_ring
    /\ StoredLast(after) = Nanoseconds(delta)
    /\ StoredLast(after).hi = 0
    /\ StoredLast(after).s >= 0

\* a call of do_tick, do_tick_fast or measure that returned a delta stored
\* that delta, if Wanted, as StoresDeltaOf says; a named tick stores into the stats
\* entry of its name, if there is one, and measure into the root stats
StoresDelta(Wanted(_)) ==
    /\ (/\ call'.op \in {"do_tick", "do_tick_fast"}
        /\ call'.ret # None
        /\ call'.arg[2] \in DOMAIN looper.stats
        /\ Wanted(call'.ret[1])) =>
            StoresDeltaOf(looper.stats[call'.arg[2]], looper'.stats[call'.arg[2]],
                          call'.ret[1])
    /\ (/\ call'.op = "measure"
        /\ call'.ret # None
        /\ Wanted(call'.ret[1][2])) =>
            StoresDeltaOf(looper.root_stats, looper'.root_stats, call'.ret[1][2])

AnyDelta(d) == TRUE

NonNegativeDelta(d) == DurGE(d, ZERO)

\* C38: every sample that Looper::do_tick, Looper::do_tick_fast or Looper::measure
\* stores in a stats ring is non-negative and equal to the number of nanoseconds
\* of the delta returned by that call (the same value RateStats::add would store
\* for that delta), for every sequence of calls with arbitrary caller-supplied
\* instants.
C38_SamplesAreDeltas == [][StoresDelta(AnyDelta)]_vars

\* What holds of C38: the sample of a delta that is not negative is as C38 says,
\* and measure returns no other as long as the host leaves the root rate alone
\* (under SpecRoot a do_tick on mut_root_rate() with an instant ahead of the clock
\* makes the delta of the next measure negative).
C38_NonNegativeDeltasStored ==
    /\ [][StoresDelta(NonNegativeDelta)]_vars
    /\ [][call'.op = "measure" /\ call'.ret # None => DurGE(call'.ret[1][2], ZERO)]_vars

\* a named tick returned a negative delta and its stats entry received a sample of
\* 2^64 nanoseconds less that delta, where RateStats::add would have stored 0
C38_NegativeSampleStored ==
    /\ call.op = "do_tick"
    /\ call.ret # None
    /\ call.arg[2] \in DOMAIN looper.stats
    /\ call.ret[1] = Dur(-1, G \div 2)
    /\ StoredLast(looper.stats[call.arg[2]]) = [hi |-> 1, s |-> -1, ns |-> G \div 2]
    /\ StoredLast(RateStats_add(RateStats_new, call.ret[1])) = U64Zero

=============================================================================
